---- MODULE Spec2Model ----
(***************************************************************************)
(* Model of the content-packaging code of the blog-poster repository:      *)
(* the three save_content_to_files methods (main.py, researcherqwen.py,    *)
(* researcherkilo.py) with their markdown-section extraction.              *)
(*                                                                         *)
(* Text is a sequence of one-character strings.  What is written to a     *)
(* file is a sequence of strings too: the characters of the texts that    *)
(* are copied into it, and the literal pieces of the f-strings as single  *)
(* elements.  Positions are 0-based, as in Python.                        *)
(***************************************************************************)
EXTENDS Integers, Sequences, FiniteSets, TLC

VARIABLES
    pc,                   \* position inside the running save_content_to_files
    variant,              \* which class's method runs: "main", "qwen", "kilo"
    topic,                \* argument topic
    content_str,          \* str(content), the raw text
    images,               \* argument images (main.py)
    research_result,      \* arguments of researcherkilo.py
    content_result,
    social_result,
    output_dir,           \* local output_dir
    files,                \* the files of output_dir: name -> what was written
    blog_start, blog_end, \* locals of the blog extraction
    social_start, social_end,
    blog_extracted, social_extracted, midjourney_extracted,
    files_created,
    returned,             \* the value returned to the caller, <<>> before the return
    now,                  \* the clock datetime.now() reads, in seconds
    disk,                 \* the directories earlier calls left: name -> files
    result,               \* what create_content returned, <<>> if nothing
    exception,            \* the exception raised and not handled, <<>> if none
    zip_file,             \* the archive of create_download_zip: name -> content
    file_name,            \* the name streamlit_app.py offers the archive under
    calls,                \* the calls that returned in earlier runs, oldest first
    requested,            \* the calls of generate_image: prompt and what it met
    organic,              \* data["organic"] of the Scholar response
    start_year,           \* local start_year of GoogleScholarTool._run
    formatted_results,    \* the result texts GoogleScholarTool._run has kept
    selected_example,     \* the value of the example select box
    text_area,            \* the value of the topic text area
    api_keys,             \* both API keys are entered in the sidebar
    button                \* what st.button returns in this run of the script

vars == <<pc, variant, topic, content_str, images, research_result, content_result,
          social_result, output_dir, files, blog_start, blog_end, social_start,
          social_end, blog_extracted, social_extracted, midjourney_extracted,
          files_created, returned, now, disk, result, exception, zip_file, file_name,
          calls, requested, organic, start_year, formatted_results, selected_example,
          text_area, api_keys, button>>

\* the variables of the image requests, of the Scholar tool and of the page
others ==
    <<requested, organic, start_year, formatted_results, selected_example, text_area,
      api_keys, button>>

\* what the steps of save_content_to_files leave alone
world == <<now, disk, result, exception, zip_file, file_name, calls, others>>

-----------------------------------------------------------------------------
(* Bounds of the model *)

\* largest number of section markers in a generated raw text
MaxMarkers == 3

\* largest length of the topics enumerated character by character
MaxTopicLen == 2

\* largest number of image results in a generated list
MaxImages == 3

-----------------------------------------------------------------------------
(* Python string operations *)

\* the characters str.strip() removes
Whitespace == {" ", "\n", "\t", "\r"}

\* c.isalnum() for the characters the model uses
Alnum == {"a", "b", "c", "d", "e", "f", "g", "h", "i", "j", "k", "l", "m",
          "n", "o", "p", "q", "r", "s", "t", "u", "v", "w", "x", "y", "z",
          "A", "B", "C", "D", "E", "F", "G", "H", "I", "J", "K", "L", "M",
          "N", "O", "P", "Q", "R", "S", "T", "U", "V", "W", "X", "Y", "Z",
          "0", "1", "2", "3", "4", "5", "6", "7", "8", "9"}

MinOf(S) == CHOOSE x \in S : \A y \in S : x <= y

\* sub occurs in s at 0-based position p
MatchAt(s, sub, p) ==
    /\ p >= 0
    /\ p + Len(sub) <= Len(s)
    /\ \A j \in 1..Len(sub) : s[p + j] = sub[j]

\* s.find(sub, start): the lowest position >= start where sub occurs, or -1
find(s, sub, start) ==
    LET hits == {p \in start..(Len(s) - Len(sub)) : MatchAt(s, sub, p)}
    IN  IF hits = {} THEN -1 ELSE MinOf(hits)

\* sub in s
contains(s, sub) == find(s, sub, 0) # -1

\* s[a:b] for a, b >= 0
slice(s, a, b) ==
    LET hi == IF b > Len(s) THEN Len(s) ELSE b
    IN  IF a >= hi THEN <<>> ELSE SubSeq(s, a + 1, hi)

\* s.strip()
strip(s) ==
    IF \A i \in 1..Len(s) : s[i] \in Whitespace
    THEN <<>>
    ELSE LET first == CHOOSE i \in 1..Len(s) :
                        /\ s[i] \notin Whitespace
                        /\ \A j \in 1..(i - 1) : s[j] \in Whitespace
             back == CHOOSE k \in 0..(Len(s) - 1) :
                        /\ s[Len(s) - k] \notin Whitespace
                        /\ \A j \in (Len(s) - k + 1)..Len(s) : s[j] \in Whitespace
         IN  SubSeq(s, first, Len(s) - back)

\* s.rstrip()
rstrip(s) ==
    IF \A i \in 1..Len(s) : s[i] \in Whitespace
    THEN <<>>
    ELSE LET back == CHOOSE k \in 0..(Len(s) - 1) :
                        /\ s[Len(s) - k] \notin Whitespace
                        /\ \A j \in (Len(s) - k + 1)..Len(s) : s[j] \in Whitespace
         IN  SubSeq(s, 1, Len(s) - back)

\* "".join(c for c in topic if c.isalnum() or c in (' ', '-', '_'))
RECURSIVE keep_safe(_)
keep_safe(t) ==
    IF t = <<>> THEN <<>>
    ELSE IF Head(t) \in Alnum \cup {" ", "-", "_"}
         THEN <<Head(t)>> \o keep_safe(Tail(t))
         ELSE keep_safe(Tail(t))

\* the slice [:50] of the slug
SlugLen == 50

\* variant of safe_topic: the characters are not filtered
safe_topic_unfiltered(t) == slice(rstrip(t), 0, SlugLen)

\* safe_topic of save_content_to_files
safe_topic(t) == slice(rstrip(keep_safe(t)), 0, SlugLen)

-----------------------------------------------------------------------------
(* The section markers *)

BLOG_POST == <<"#", " ", "B", "L", "O", "G", " ", "P", "O", "S", "T">>
LINKEDIN_POSTS == <<"#", " ", "L", "I", "N", "K", "E", "D", "I", "N", " ",
                    "P", "O", "S", "T", "S">>
TWITTER_POSTS == <<"#", " ", "X", "/", "T", "W", "I", "T", "T", "E", "R", " ",
                   "P", "O", "S", "T", "S">>
MIDJOURNEY_PROMPTS == <<"#", " ", "M", "I", "D", "J", "O", "U", "R", "N", "E", "Y",
                        " ", "P", "R", "O", "M", "P", "T", "S">>

\* the four markers in the order of the task's template
Markers == <<BLOG_POST, LINKEDIN_POSTS, TWITTER_POSTS, MIDJOURNEY_PROMPTS>>

-----------------------------------------------------------------------------
(* The inputs the model draws *)

\* trimmed lengths of the generated bodies: around the thresholds 30, 50 and
\* 100 of researcherqwen.py (a MidJourney body of 10 or 11 characters makes a
\* section of 30 or 31 with its marker, a LinkedIn body of 33 or 34 one of
\* 50 or 51), and the empty body
BodyLens == {0, 10, 11, 33, 34, 100, 101}

\* the k-th body of a text is written with the k-th of these characters
BodyChars == <<"v", "w", "x", "y", "z">>

Rep(c, n) == [i \in 1..n |-> c]

\* a body of n characters between newlines, as the template lays it out
Body(k, n) == IF n = 0 THEN <<>> ELSE <<"\n">> \o Rep(BodyChars[k], n) \o <<"\n">>

RECURSIVE Sections(_, _, _)
Sections(ms, n, k) ==
    IF ms = <<>> THEN <<>>
    ELSE Markers[Head(ms)] \o Body(k, n) \o Sections(Tail(ms), n, k + 1)

\* the text with the markers ms (indices into Markers), each followed by a body
\* of n characters; a text without markers is one body
RawText(ms, n) == IF ms = <<>> THEN Body(1, n) ELSE Sections(ms, n, 1)

\* the template's order of the four markers
Canonical == <<1, 2, 3, 4>>

\* markers in any order, repeated or missing
MarkerSeqs == UNION {[1..k -> 1..Len(Markers)] : k \in 0..MaxMarkers} \cup {Canonical}

\* texts of at most one section
ShortSeqs == {<<>>} \cup {<<k>> : k \in 1..Len(Markers)}

\* the four sections in the template's order, each with a body length of its own
CanonicalText(b, l, t, m) ==
    BLOG_POST \o Body(1, b) \o LINKEDIN_POSTS \o Body(2, l) \o
    TWITTER_POSTS \o Body(3, t) \o MIDJOURNEY_PROMPTS \o Body(4, m)

CanonicalTexts ==
    {CanonicalText(b, l, t, m) : b \in {100, 101}, l \in {34, 50}, t \in {0, 10},
                                 m \in {11, 30}}

\* body lengths of the texts of several sections: none, short, long
OrderLens == {0, 11, 101}

\* texts of at most one section, with every body length
ShortTexts == {RawText(ms, n) : ms \in ShortSeqs, n \in BodyLens}

RawTexts ==
    ShortTexts \cup {RawText(ms, n) : ms \in MarkerSeqs, n \in OrderLens}
               \cup CanonicalTexts

PlainTopic == <<"A", "I">>
Topics == {PlainTopic, <<"M", "L", ":", " ", "o", "p", "s", "!", " ">>}

\* the arguments of researcherqwen.py's save_content_to_files: every text with
\* the plain topic, and every topic with the short texts (the topic takes no
\* part in the extraction)
QwenInputs == ({PlainTopic} \X RawTexts) \cup (Topics \X ShortTexts)

\* datetime.now().strftime(...): the formatted time is one element of the text
Timestamp == "%Y%m%d_%H%M%S"
DateTime == "%Y-%m-%d %H:%M:%S"

\* the timestamp of a directory name, to the second: the format and the second
\* the clock shows
strftime(fmt, t) == <<fmt, ToString(t)>>

\* the directories the three classes write under
MainRoot == "outputs/"
QwenRoot == "technical_content/"
KiloRoot == "multi_agent_content/"

\* output_dir = f"{root}{safe_topic}_{timestamp}"
dir_name(root, t, time) == <<root>> \o safe_topic(t) \o <<"_">> \o strftime(Timestamp, time)

\* the status icons of the README (the literals of the model are ASCII: an icon
\* is named by its code point, and a backquote is written as a quote)
OkIcon == "U+2705"
FailIcon == "U+274C"
WarnIcon == "U+26A0U+FE0F"

-----------------------------------------------------------------------------
(* The file system of output_dir *)

NoFiles == [n \in {} |-> <<>>]

\* open(name, "w") ... f.write(...): the file is created or replaced
write(fs, name, text) ==
    [n \in DOMAIN fs \cup {name} |-> IF n = name THEN text ELSE fs[n]]

exists(fs, name) == name \in DOMAIN fs

\* nothing returned yet
None == <<>>

\* a makedirs that would empty a directory it finds
makedirs_emptied(d, dir) == NoFiles

\* os.makedirs(dir, exist_ok=True): what the directory holds afterwards, the
\* files an earlier call left in it or nothing
makedirs(d, dir) == IF dir \in DOMAIN d THEN d[dir] ELSE NoFiles

-----------------------------------------------------------------------------
(* researcherqwen.py: DataScienceContentCreator.save_content_to_files *)

\* the thresholds of the three sections
BlogMinLen == 100
SocialMinLen == 50
MidjourneyMinLen == 30

\* the file count the README reports against
ExpectedFiles == 5

\* for marker in end_markers: marker_pos = content_str.find(marker, from);
\* if marker_pos > start: end = marker_pos; break   (default: len(content_str))
RECURSIVE end_scan(_, _, _, _)
end_scan(s, end_markers, start, from) ==
    IF end_markers = <<>> THEN Len(s)
    ELSE LET marker_pos == find(s, Head(end_markers), from)
         IN  IF marker_pos > start THEN marker_pos
             ELSE end_scan(s, Tail(end_markers), start, from)

\* blog_start: just after the first '# BLOG POST'
qwen_blog_start(s) == find(s, BLOG_POST, 0) + Len(BLOG_POST)

\* variant of qwen_blog_end: the nearest end marker after the start, whatever
\* its place in the preference order
qwen_blog_end_nearest(s) ==
    LET hits == {p \in (qwen_blog_start(s) + 1)..Len(s) :
                    \/ MatchAt(s, LINKEDIN_POSTS, p)
                    \/ MatchAt(s, TWITTER_POSTS, p)
                    \/ MatchAt(s, MIDJOURNEY_PROMPTS, p)}
    IN  IF hits = {} THEN Len(s) ELSE MinOf(hits)

\* blog_end: content_str.find(marker) searches the whole text
qwen_blog_end(s) ==
    end_scan(s, <<LINKEDIN_POSTS, TWITTER_POSTS, MIDJOURNEY_PROMPTS>>,
             qwen_blog_start(s), 0)

\* variant of qwen_blog_content: the slice is not stripped
qwen_blog_content_untrimmed(s) == slice(s, qwen_blog_start(s), qwen_blog_end(s))

qwen_blog_content(s) == strip(slice(s, qwen_blog_start(s), qwen_blog_end(s)))

\* variant of qwen_social_start: just after the marker, as for the blog
qwen_social_start_after_marker(s) == find(s, LINKEDIN_POSTS, 0) + Len(LINKEDIN_POSTS)

\* social_start: at the first '# LINKEDIN POSTS' (the marker is kept)
qwen_social_start(s) == find(s, LINKEDIN_POSTS, 0)

\* social_end: the end-marker loop, then the inclusion of the Twitter section
qwen_social_end(s) ==
    LET start == qwen_social_start(s)
        e1 == end_scan(s, <<TWITTER_POSTS, MIDJOURNEY_PROMPTS>>, start, start + 1)
        twitter_start == find(s, TWITTER_POSTS, 0)
        midjourney_start == find(s, MIDJOURNEY_PROMPTS, 0)
    IN  IF contains(s, TWITTER_POSTS) /\ (twitter_start < e1 \/ e1 = Len(s))
        THEN IF midjourney_start > twitter_start THEN midjourney_start ELSE Len(s)
        ELSE e1

qwen_social_content(s) == strip(slice(s, qwen_social_start(s), qwen_social_end(s)))

\* midjourney_content: from the first '# MIDJOURNEY PROMPTS' to the end
qwen_midjourney_content(s) == strip(slice(s, find(s, MIDJOURNEY_PROMPTS, 0), Len(s)))

\* variant of qwen_blog_ok: >= in place of >
qwen_blog_ok_at_least(text) == Len(text) >= BlogMinLen

\* the acceptance tests of the three sections
qwen_blog_ok(text) == Len(text) > BlogMinLen

\* a threshold that would let only the first run of the script pass
qwen_social_ok_first_run(text) == Len(text) > SocialMinLen /\ calls = <<>>

qwen_social_ok(text) == Len(text) > SocialMinLen
qwen_midjourney_ok(text) == Len(text) > MidjourneyMinLen

\* the headers of the files
qwen_complete_header(t) ==
    <<"# Technical Content Package: ">> \o t \o
    <<"\n\n", "**Generated:** ", DateTime, "\n",
      "**Perspective:** Data Scientist Technical Blog\n",
      "**Model:** DeepSeek R1 Distill Llama 70B\n\n", "---\n\n">>

\* variants of qwen_complete_file: the text stripped; the first 300 characters
\* of the text, as in the debug print
qwen_complete_file_stripped(t, s) == qwen_complete_header(t) \o strip(s)
qwen_complete_file_preview(t, s) == qwen_complete_header(t) \o slice(s, 0, 300)

qwen_complete_file(t, s) == qwen_complete_header(t) \o s

qwen_blog_header(t) ==
    <<"# ">> \o t \o
    <<"\n\n", "*Technical blog post from a data scientist's perspective*\n",
      "*Generated: ", DateTime, "*\n\n">>

qwen_social_header(t) ==
    <<"# Social Media Content: ">> \o t \o <<"\n\n", "*Generated: ", DateTime, "*\n\n">>

qwen_midjourney_header(t) ==
    <<"# MidJourney Prompts: ">> \o t \o <<"\n\n", "*Generated: ", DateTime, "*\n\n">>

\* variant of qwen_files_created: README.md is counted as well
qwen_files_created_with_readme(b, so, m) ==
    2 + (IF b THEN 1 ELSE 0) + (IF so THEN 1 ELSE 0) + (IF m THEN 1 ELSE 0)

\* files_created: 1 for the complete file, plus one per extracted section
qwen_files_created(b, so, m) ==
    1 + (IF b THEN 1 ELSE 0) + (IF so THEN 1 ELSE 0) + (IF m THEN 1 ELSE 0)

\* variant of qwen_readme_line: the success line whatever the flag
qwen_readme_line_always_ok(ok, okText, failText) == <<"- ", OkIcon, okText>>

\* the line of a section in the README's file list
qwen_readme_line(ok, okText, failText) ==
    IF ok THEN <<"- ", OkIcon, okText>> ELSE <<"- ", FailIcon, failText>>

BlogOkText == " 'technical_blog_post.md' - **MAIN TECHNICAL BLOG** (1000-1500 words)\n"
BlogFailText == " 'technical_blog_post.md' - Main technical blog (not extracted)\n"
SocialOkText == " 'social_media_posts.md' - LinkedIn & Twitter content\n"
SocialFailText == " 'social_media_posts.md' - Social media content (not extracted)\n"
MidjourneyOkText == " 'midjourney_prompts.md' - MidJourney visual prompts\n"
MidjourneyFailText == " 'midjourney_prompts.md' - MidJourney prompts (not extracted)\n"
IssuesHeading == " Extraction Issues:\n\n"

\* variant of qwen_readme_sections: the lines in the opposite order
qwen_readme_sections_reversed(b, so, m) ==
    qwen_readme_line(m, MidjourneyOkText, MidjourneyFailText) \o
    qwen_readme_line(so, SocialOkText, SocialFailText) \o
    qwen_readme_line(b, BlogOkText, BlogFailText)

\* lines 394-408: the lines of the three sections in the README's file list
qwen_readme_sections(b, so, m) ==
    qwen_readme_line(b, BlogOkText, BlogFailText) \o
    qwen_readme_line(so, SocialOkText, SocialFailText) \o
    qwen_readme_line(m, MidjourneyOkText, MidjourneyFailText)

qwen_readme(t, b, so, m, created) ==
    <<"# Technical Content: ">> \o t \o
    <<"\n\n", "**Generated:** ", DateTime, "\n",
      "**Style:** Data Scientist Technical Perspective\n",
      "**Success Rate:** ", ToString(created), "/", ToString(ExpectedFiles),
      " files created\n\n", "## U+1F4C1 Files:\n\n">> \o
    qwen_readme_sections(b, so, m) \o
    <<"- ", OkIcon, " 'complete_technical_content.md' - All content including social media\n",
      "- ", OkIcon, " 'README.md' - This file\n\n",
      "## U+1F52C Content Features:\n\n",
      OkIcon, " Technical depth with practical implementation\n",
      OkIcon, " Code examples and technical details\n",
      OkIcon, " Personal insights from data science experience\n",
      OkIcon, " Real-world applications and challenges\n",
      OkIcon, " Technical social media content\n",
      OkIcon, " MidJourney prompts for professional blog visuals\n">> \o
    (IF created < 4
     THEN <<"\n## ", WarnIcon, IssuesHeading,
            "Some content sections couldn't be extracted. Check 'complete_technical_content.md' for the full output.\n",
            "The content might be there but not properly formatted with the expected headers.\n">>
     ELSE <<>>)

\* the names of the files
QwenComplete == "complete_technical_content.md"
QwenBlog == "technical_blog_post.md"
QwenSocial == "social_media_posts.md"
QwenMidjourney == "midjourney_prompts.md"
Readme == "README.md"

\* lines 262-278: the directory is named and created, the content is read
Qwen_Call(t, c) ==
    /\ pc = "idle"
    /\ pc' = "qwen_complete"
    /\ variant' = "qwen"
    /\ topic' = t
    /\ content_str' = c
    /\ output_dir' = dir_name(QwenRoot, t, now)
    /\ files' = makedirs(disk, output_dir')
    /\ UNCHANGED <<images, research_result, content_result, social_result, blog_start,
                   blog_end, social_start, social_end, blog_extracted, social_extracted,
                   midjourney_extracted, files_created, returned, world>>

\* lines 280-288: the complete file
Qwen_SaveComplete ==
    /\ pc = "qwen_complete"
    /\ pc' = "qwen_blog"
    /\ files' = write(files, QwenComplete, qwen_complete_file(topic, content_str))
    /\ UNCHANGED <<variant, topic, content_str, images, research_result, content_result,
                   social_result, output_dir, blog_start, blog_end, social_start,
                   social_end, blog_extracted, social_extracted, midjourney_extracted,
                   files_created, returned, world>>

\* lines 290-320: the blog section
Qwen_ExtractBlog ==
    /\ pc = "qwen_blog"
    /\ pc' = "qwen_social"
    /\ IF contains(content_str, BLOG_POST)
       THEN LET blog_content == qwen_blog_content(content_str)
            IN  /\ blog_start' = qwen_blog_start(content_str)
                /\ blog_end' = qwen_blog_end(content_str)
                /\ IF qwen_blog_ok(blog_content)
                   THEN /\ files' = write(files, QwenBlog,
                                          qwen_blog_header(topic) \o blog_content)
                        /\ blog_extracted' = TRUE
                   ELSE /\ blog_extracted' = FALSE
                        /\ UNCHANGED files
       ELSE /\ blog_extracted' = FALSE
            /\ UNCHANGED <<files, blog_start, blog_end>>
    /\ UNCHANGED <<variant, topic, content_str, images, research_result, content_result,
                   social_result, output_dir, social_start, social_end, social_extracted,
                   midjourney_extracted, files_created, returned, world>>

\* lines 322-359: the social media section
Qwen_ExtractSocial ==
    /\ pc = "qwen_social"
    /\ pc' = "qwen_midjourney"
    /\ IF contains(content_str, LINKEDIN_POSTS)
       THEN LET social_content == qwen_social_content(content_str)
            IN  /\ social_start' = qwen_social_start(content_str)
                /\ social_end' = qwen_social_end(content_str)
                /\ IF qwen_social_ok(social_content)
                   THEN /\ files' = write(files, QwenSocial,
                                          qwen_social_header(topic) \o social_content)
                        /\ social_extracted' = TRUE
                   ELSE /\ social_extracted' = FALSE
                        /\ UNCHANGED files
       ELSE /\ social_extracted' = FALSE
            /\ UNCHANGED <<files, social_start, social_end>>
    /\ UNCHANGED <<variant, topic, content_str, images, research_result, content_result,
                   social_result, output_dir, blog_start, blog_end, blog_extracted,
                   midjourney_extracted, files_created, returned, world>>

\* lines 361-376: the MidJourney section
Qwen_ExtractMidjourney ==
    /\ pc = "qwen_midjourney"
    /\ pc' = "qwen_readme"
    /\ IF contains(content_str, MIDJOURNEY_PROMPTS)
       THEN LET midjourney_content == qwen_midjourney_content(content_str)
            IN  IF qwen_midjourney_ok(midjourney_content)
                THEN /\ files' = write(files, QwenMidjourney,
                                       qwen_midjourney_header(topic) \o midjourney_content)
                     /\ midjourney_extracted' = TRUE
                ELSE /\ midjourney_extracted' = FALSE
                     /\ UNCHANGED files
       ELSE /\ midjourney_extracted' = FALSE
            /\ UNCHANGED files
    /\ UNCHANGED <<variant, topic, content_str, images, research_result, content_result,
                   social_result, output_dir, blog_start, blog_end, social_start,
                   social_end, blog_extracted, social_extracted, files_created, returned, world>>

\* lines 378-427: the count and the README
Qwen_WriteReadme ==
    /\ pc = "qwen_readme"
    /\ pc' = "qwen_return"
    /\ files_created' = qwen_files_created(blog_extracted, social_extracted,
                                           midjourney_extracted)
    /\ files' = write(files, Readme,
                      qwen_readme(topic, blog_extracted, social_extracted,
                                  midjourney_extracted, files_created'))
    /\ UNCHANGED <<variant, topic, content_str, images, research_result, content_result,
                   social_result, output_dir, blog_start, blog_end, social_start,
                   social_end, blog_extracted, social_extracted, midjourney_extracted,
                   returned, world>>

\* line 429: return output_dir
Qwen_Return ==
    /\ pc = "qwen_return"
    /\ pc' = "done"
    /\ returned' = output_dir
    /\ UNCHANGED <<variant, topic, content_str, images, research_result, content_result,
                   social_result, output_dir, files, blog_start, blog_end, social_start,
                   social_end, blog_extracted, social_extracted, midjourney_extracted,
                   files_created, world>>

-----------------------------------------------------------------------------
(* main.py: SimpleSocialCreator.save_content_to_files *)

\* results of ImageGenerator.generate_image, each one string
ImageSaved == "U+2705 Stability AI image saved: generated_images/stability_image.png"
ImageError == "U+274C Stability AI error: 429 - rate limit"
ImageLists == {<<>>, <<ImageSaved, ImageError>>}

\* a result of several lines: the text of an error response
ImageErrorLines == "U+274C Stability AI error: 500 - internal error\nplease retry\n"

\* every list of at most MaxImages results, in every order, with repetitions
ImageResults == {ImageSaved, ImageError, ImageErrorLines}
AllImageLists == UNION {[1..k -> ImageResults] : k \in 0..MaxImages}

\* the arguments of main.py's save_content_to_files: every text with the plain
\* topic and no image, and every topic and image list with the short texts
MainInputs ==
    ({PlainTopic} \X RawTexts \X {<<>>}) \cup (Topics \X ShortTexts \X ImageLists)

MainBlog == "01_BLOG_POST_MEDIUM.md"
MainComplete == "complete_content.md"
MainImages == "images_generated.txt"

\* blog_start: just after the first '# BLOG POST'
main_blog_start(s) == find(s, BLOG_POST, 0) + Len(BLOG_POST)

\* blog_end: the first '# LINKEDIN POSTS' of the text, else the first
\* '# X/TWITTER POSTS', else the end of the text
main_blog_end(s) ==
    LET e1 == find(s, LINKEDIN_POSTS, 0)
        e2 == IF e1 = -1 THEN find(s, TWITTER_POSTS, 0) ELSE e1
    IN  IF e2 = -1 THEN Len(s) ELSE e2

main_blog_content(s) == strip(slice(s, main_blog_start(s), main_blog_end(s)))

main_blog_header(t) ==
    <<"# ">> \o t \o
    <<"\n\n", "*Ready for Medium.com - Generated on: ", DateTime, "*\n\n">>

BlogWarning ==
    "U+26A0U+FE0F Blog content extraction failed. Check complete_content.md for full output.\n\n"

\* variant of main_blog_body: no warning branch
main_blog_body_no_warning(s) == main_blog_content(s)

\* what follows the header in 01_BLOG_POST_MEDIUM.md
main_blog_body(s) ==
    IF contains(s, BLOG_POST) THEN main_blog_content(s) ELSE <<BlogWarning>> \o s

main_complete_header(t) ==
    <<"# Complete Content Package: ">> \o t \o
    <<"\n\n", "**Generated on:** ", DateTime, "\n\n", "---\n\n">>

\* variant of main_complete_file: what the extraction gave in place of the text
main_complete_file_extracted(t, s) == main_complete_header(t) \o main_blog_body(s)

main_complete_file(t, s) == main_complete_header(t) \o s

\* for i, img_result in enumerate(images, 1): f.write(f"Image {i}:\n{img_result}\n\n")
\* "="*50
Rule50 == "=================================================="

RECURSIVE main_image_entries(_, _)
main_image_entries(imgs, i) ==
    IF imgs = <<>> THEN <<>>
    ELSE <<"Image ", ToString(i), ":\n", Head(imgs), "\n\n">> \o
         main_image_entries(Tail(imgs), i + 1)

\* variant of main_images_file: enumerate(images) without the start of 1
main_images_file_from_zero(t, imgs) ==
    <<"GENERATED IMAGES - ">> \o t \o <<"\n", Rule50, "\n\n">> \o
    main_image_entries(imgs, 0)

main_images_file(t, imgs) ==
    <<"GENERATED IMAGES - ">> \o t \o <<"\n", Rule50, "\n\n">> \o
    main_image_entries(imgs, 1)

\* the line of the blog post under "What's included" in the README of main.py
MainBlogIncluded == " Comprehensive blog post (800-1200 words) - READY FOR MEDIUM\n"

\* the README of main.py is the same for every content
main_readme(t) ==
    <<"# Content Package: ">> \o t \o
    <<"\n\n", "Generated on: ", DateTime, "\n\n", "## U+1F4C1 Files:\n\n",
      "- '01_BLOG_POST_MEDIUM.md' - **MAIN BLOG POST** (800-1200 words for Medium.com)\n",
      "- 'complete_content.md' - All content in one file\n",
      "- 'images_generated.txt' - Image generation results\n",
      "- 'generated_images/' - Actual image files\n\n",
      "## U+1F3AF Priority Content:\n\n",
      "U+1F525 **MAIN DELIVERABLE**: '01_BLOG_POST_MEDIUM.md'\n\n",
      "U+1F4F1 **Social Media**: Check 'complete_content.md' for LinkedIn & Twitter posts\n\n",
      "## U+1F4CA What's included:\n\n",
      OkIcon, MainBlogIncluded,
      OkIcon, " LinkedIn posts (English + Turkish)\n",
      OkIcon, " X/Twitter posts (English + Turkish)\n",
      OkIcon, " AI-generated images\n",
      OkIcon, " Research-backed content with current data\n">>

\* lines 162-167
Main_Call(t, c, imgs) ==
    /\ pc = "idle"
    /\ pc' = "main_blog"
    /\ variant' = "main"
    /\ topic' = t
    /\ content_str' = c
    /\ images' = imgs
    /\ output_dir' = dir_name(MainRoot, t, now)
    /\ files' = makedirs(disk, output_dir')
    /\ UNCHANGED <<research_result, content_result, social_result, blog_start,
                   blog_end, social_start, social_end, blog_extracted, social_extracted,
                   midjourney_extracted, files_created, returned, world>>

\* lines 169-187: the blog file is written whether or not the marker is there
Main_WriteBlog ==
    /\ pc = "main_blog"
    /\ pc' = "main_complete"
    /\ IF contains(content_str, BLOG_POST)
       THEN /\ blog_start' = main_blog_start(content_str)
            /\ blog_end' = main_blog_end(content_str)
       ELSE UNCHANGED <<blog_start, blog_end>>
    /\ files' = write(files, MainBlog, main_blog_header(topic) \o main_blog_body(content_str))
    /\ UNCHANGED <<variant, topic, content_str, images, research_result, content_result,
                   social_result, output_dir, social_start, social_end, blog_extracted,
                   social_extracted, midjourney_extracted, files_created, returned, world>>

\* lines 189-194
Main_WriteComplete ==
    /\ pc = "main_complete"
    /\ pc' = "main_images"
    /\ files' = write(files, MainComplete, main_complete_file(topic, content_str))
    /\ UNCHANGED <<variant, topic, content_str, images, research_result, content_result,
                   social_result, output_dir, blog_start, blog_end, social_start,
                   social_end, blog_extracted, social_extracted, midjourney_extracted,
                   files_created, returned, world>>

\* lines 196-201
Main_WriteImages ==
    /\ pc = "main_images"
    /\ pc' = "main_readme"
    /\ files' = write(files, MainImages, main_images_file(topic, images))
    /\ UNCHANGED <<variant, topic, content_str, images, research_result, content_result,
                   social_result, output_dir, blog_start, blog_end, social_start,
                   social_end, blog_extracted, social_extracted, midjourney_extracted,
                   files_created, returned, world>>

\* lines 203-220
Main_WriteReadme ==
    /\ pc = "main_readme"
    /\ pc' = "main_return"
    /\ files' = write(files, Readme, main_readme(topic))
    /\ UNCHANGED <<variant, topic, content_str, images, research_result, content_result,
                   social_result, output_dir, blog_start, blog_end, social_start,
                   social_end, blog_extracted, social_extracted, midjourney_extracted,
                   files_created, returned, world>>

\* line 222
Main_Return ==
    /\ pc = "main_return"
    /\ pc' = "done"
    /\ returned' = output_dir
    /\ UNCHANGED <<variant, topic, content_str, images, research_result, content_result,
                   social_result, output_dir, files, blog_start, blog_end, social_start,
                   social_end, blog_extracted, social_extracted, midjourney_extracted,
                   files_created, world>>

-----------------------------------------------------------------------------
(* researcherkilo.py: MultiAgentContentCreator.save_content_to_files *)

\* the results of the three agents: short texts, with and without a marker
KiloTexts == {RawText(<<>>, 0), RawText(<<>>, 10), RawText(<<1>>, 11)}

KiloResearch == "01_research_findings.md"
KiloBlog == "02_technical_blog_post.md"
KiloSocial == "03_social_media_content.md"
KiloComplete == "complete_multi_agent_content.md"

kilo_research_file(t, r) ==
    <<"# Research Findings: ">> \o t \o
    <<"\n\n", "*Generated by Research Agent (Qwen 3-32B) on: ", DateTime, "*\n\n">> \o r

kilo_blog_file(t, c) ==
    <<"# ">> \o t \o
    <<"\n\n", "*Generated by Content Writer Agent (DeepSeek R1) on: ", DateTime,
      "*\n\n">> \o c

kilo_social_file(t, so) ==
    <<"# Social Media Content: ">> \o t \o
    <<"\n\n", "*Generated by Social Media Specialist (DeepSeek R1) on: ", DateTime,
      "*\n\n">> \o so

kilo_complete_file(t, r, c, so) ==
    <<"# Complete Multi-Agent Content Package: ">> \o t \o
    <<"\n\n", "**Generated:** ", DateTime, "\n",
      "**Architecture:** Multi-Agent System\n",
      "**Research Model:** Qwen 3-32B\n",
      "**Content Model:** DeepSeek R1 Distill Llama 70B\n",
      "**Social Model:** DeepSeek R1 Distill Llama 70B\n\n",
      "---\n\n", "# RESEARCH FINDINGS\n\n">> \o r \o
    <<"\n\n---\n\n", "# TECHNICAL BLOG POST\n\n">> \o c \o
    <<"\n\n---\n\n", "# SOCIAL MEDIA CONTENT\n\n">> \o so

\* the README of researcherkilo.py is the same for every content
kilo_readme(t) ==
    <<"# Multi-Agent Content Package: ">> \o t \o
    <<"\n\n", "**Generated:** ", DateTime, "\n",
      "**Architecture:** Multi-Agent System with Specialized LLMs\n\n",
      "## U+1F916 Agent Architecture:\n\n",
      "- **Research Agent**: Qwen 3-32B (Efficient research and data gathering)\n",
      "- **Content Writer**: DeepSeek R1 Distill Llama 70B (Creative technical writing)\n",
      "- **Social Media Specialist**: DeepSeek R1 Distill Llama 70B (Engaging social content)\n\n",
      "## U+1F4C1 Files Generated:\n\n",
      "- ", OkIcon, " '01_research_findings.md' - Comprehensive research by Research Agent\n",
      "- ", OkIcon, " '02_technical_blog_post.md' - **MAIN TECHNICAL BLOG** (1000-1500 words)\n",
      "- ", OkIcon, " '03_social_media_content.md' - LinkedIn & Twitter content + MidJourney prompts\n",
      "- ", OkIcon, " 'complete_multi_agent_content.md' - All content in one file\n",
      "- ", OkIcon, " 'README.md' - This file\n\n",
      "## U+1F52C Multi-Agent Workflow:\n\n",
      "1. **Research Phase**: Research Agent gathers academic papers, industry data, and technical examples\n",
      "2. **Content Creation**: Content Writer transforms research into comprehensive blog post\n",
      "3. **Social Adaptation**: Social Media Specialist creates platform-specific content\n\n",
      "## U+2728 Content Features:\n\n",
      OkIcon, " **Research-Backed**: Academic sources + industry data\n",
      OkIcon, " **Technical Depth**: Code examples and practical implementation\n",
      OkIcon, " **Multi-Platform**: Blog, LinkedIn, Twitter content\n",
      OkIcon, " **Bilingual**: English and Turkish social media content\n",
      OkIcon, " **Visual Ready**: MidJourney prompts for professional visuals\n",
      OkIcon, " **Specialized LLMs**: Optimized models for each task\n\n",
      "## U+1F3AF Usage:\n\n",
      "- **For Blog**: Use '02_technical_blog_post.md'\n",
      "- **For Social Media**: Use '03_social_media_content.md'\n",
      "- **For Research**: Reference '01_research_findings.md'\n">>

\* lines 392-397
Kilo_Call(t, r, c, so) ==
    /\ pc = "idle"
    /\ pc' = "kilo_research"
    /\ variant' = "kilo"
    /\ topic' = t
    /\ research_result' = r
    /\ content_result' = c
    /\ social_result' = so
    /\ output_dir' = dir_name(KiloRoot, t, now)
    /\ files' = makedirs(disk, output_dir')
    /\ UNCHANGED <<content_str, images, blog_start, blog_end, social_start, social_end,
                   blog_extracted, social_extracted, midjourney_extracted,
                   files_created, returned, world>>

\* the frame of the writes of researcherkilo.py
KiloFrame ==
    UNCHANGED <<variant, topic, content_str, images, research_result, content_result,
                social_result, output_dir, blog_start, blog_end, social_start,
                social_end, blog_extracted, social_extracted, midjourney_extracted,
                files_created, returned, world>>

\* lines 399-404
Kilo_WriteResearch ==
    /\ pc = "kilo_research"
    /\ pc' = "kilo_blog"
    /\ files' = write(files, KiloResearch, kilo_research_file(topic, research_result))
    /\ KiloFrame

\* lines 406-411
Kilo_WriteBlog ==
    /\ pc = "kilo_blog"
    /\ pc' = "kilo_social"
    /\ files' = write(files, KiloBlog, kilo_blog_file(topic, content_result))
    /\ KiloFrame

\* lines 413-418
Kilo_WriteSocial ==
    /\ pc = "kilo_social"
    /\ pc' = "kilo_complete"
    /\ files' = write(files, KiloSocial, kilo_social_file(topic, social_result))
    /\ KiloFrame

\* lines 420-437
Kilo_WriteComplete ==
    /\ pc = "kilo_complete"
    /\ pc' = "kilo_readme"
    /\ files' = write(files, KiloComplete,
                      kilo_complete_file(topic, research_result, content_result,
                                         social_result))
    /\ KiloFrame

\* lines 439-476
Kilo_WriteReadme ==
    /\ pc = "kilo_readme"
    /\ pc' = "kilo_return"
    /\ files' = write(files, Readme, kilo_readme(topic))
    /\ KiloFrame

\* line 478
Kilo_Return ==
    /\ pc = "kilo_return"
    /\ pc' = "done"
    /\ returned' = output_dir
    /\ UNCHANGED <<variant, topic, content_str, images, research_result, content_result,
                   social_result, output_dir, files, blog_start, blog_end, social_start,
                   social_end, blog_extracted, social_extracted, midjourney_extracted,
                   files_created, world>>

-----------------------------------------------------------------------------
(* streamlit_app.py: the download tab and create_download_zip *)

ZipComplete == "complete_content_package.md"

\* the five entries of the archive; the literals are split at the same places
\* as those of researcherkilo.py, at the ends of lines and at the interpolations
zip_research_file(t, r) ==
    <<"# Research Findings: ">> \o t \o <<"\n\n", "*Generated: ", DateTime, "*\n\n">> \o r

zip_blog_file(t, c) ==
    <<"# ">> \o t \o <<"\n\n", "*Generated: ", DateTime, "*\n\n">> \o c

zip_social_file(t, so) ==
    <<"# Social Media Content: ">> \o t \o
    <<"\n\n", "*Generated: ", DateTime, "*\n\n">> \o so

zip_complete_file(t, r, c, so) ==
    <<"# Complete Multi-Agent Content Package: ">> \o t \o
    <<"\n\n", "**Generated:** ", DateTime, "\n",
      "**Architecture:** Multi-Agent System\n",
      "**Research Model:** Qwen/Qwen3-32B\n",
      "**Content Model:** DeepSeek R1 Distill Llama 70B\n",
      "**Social Model:** DeepSeek R1 Distill Llama 70B\n\n",
      "---\n\n", "# RESEARCH FINDINGS\n\n">> \o r \o
    <<"\n\n---\n\n", "# TECHNICAL BLOG POST\n\n">> \o c \o
    <<"\n\n---\n\n", "# SOCIAL MEDIA CONTENT\n\n">> \o so \o <<"\n">>

zip_readme(t) ==
    <<"# Content Package: ">> \o t \o
    <<"\n\n", "Generated: ", DateTime, "\n\n", "## Files:\n",
      "- '01_research_findings.md' - Research findings\n",
      "- '02_technical_blog_post.md' - Main blog post\n",
      "- '03_social_media_content.md' - Social media content\n",
      "- 'complete_content_package.md' - Everything combined\n\n",
      "## Generated by:\n",
      "AI-Powered Multi-Agent Content Creator\n",
      "https://github.com/elandil2/blog-poster\n">>

\* the archive as a mapping from entry name to content
create_download_zip(t, r, c, so) ==
    write(write(write(write(write(NoFiles,
        KiloResearch, zip_research_file(t, r)),
        KiloBlog, zip_blog_file(t, c)),
        KiloSocial, zip_social_file(t, so)),
        ZipComplete, zip_complete_file(t, r, c, so)),
        Readme, zip_readme(t))

\* file_name=f"{safe_topic}_{timestamp}.zip"
zip_name(t, time) == safe_topic(t) \o <<"_">> \o strftime(Timestamp, time) \o <<".zip">>

\* lines 643-656: the download tab names and builds the archive of a result
Streamlit_Download(t, r, c, so) ==
    /\ pc = "idle"
    /\ pc' = "downloaded"
    /\ variant' = "streamlit"
    /\ topic' = t
    /\ research_result' = r
    /\ content_result' = c
    /\ social_result' = so
    /\ zip_file' = create_download_zip(t, r, c, so)
    /\ file_name' = zip_name(t, now)
    /\ UNCHANGED <<content_str, images, output_dir, files, blog_start, blog_end,
                   social_start, social_end, blog_extracted, social_extracted,
                   midjourney_extracted, files_created, returned, now, disk, result,
                   exception, calls, others>>

-----------------------------------------------------------------------------
(* create_content, the caller of save_content_to_files, and failing writes *)

\* the OSError of a failed os.makedirs or open/write, with the path it names
OSError(path) == [type |-> "OSError", filename |-> path]

\* the dictionaries create_content returns
main_result(content, imgs, dir) ==
    [content |-> content, images |-> imgs, output_directory |-> dir]
qwen_result(content, dir) == [content |-> content, output_directory |-> dir]
kilo_result(r, c, so, dir) ==
    [research |-> r, content |-> c, social |-> so, output_directory |-> dir]

\* variant of create_content_except: the handler answers with a dictionary,
\* as StreamlitMultiAgentContentCreator.create_content does
create_content_except_swallowed(e) ==
    [result |-> [success |-> FALSE, error |-> e.type], exception |-> None]

\* except Exception as e: print(...); raise e
create_content_except(e) == [result |-> None, exception |-> e]

\* the steps of each save_content_to_files that may open a file, in order
WriteSteps(v) ==
    IF v = "qwen"
    THEN <<"qwen_complete", "qwen_blog", "qwen_social", "qwen_midjourney", "qwen_readme">>
    ELSE IF v = "main"
    THEN <<"main_blog", "main_complete", "main_images", "main_readme">>
    ELSE <<"kilo_research", "kilo_blog", "kilo_social", "kilo_complete", "kilo_readme">>

\* the file the step at p opens and the text it writes to it; None when the
\* step opens no file (a section that is not present)
Pending(p) ==
    CASE p = "qwen_complete" -> <<QwenComplete, qwen_complete_file(topic, content_str)>>
      [] p = "qwen_blog" ->
            IF /\ contains(content_str, BLOG_POST)
               /\ qwen_blog_ok(qwen_blog_content(content_str))
            THEN <<QwenBlog, qwen_blog_header(topic) \o qwen_blog_content(content_str)>>
            ELSE None
      [] p = "qwen_social" ->
            IF /\ contains(content_str, LINKEDIN_POSTS)
               /\ qwen_social_ok(qwen_social_content(content_str))
            THEN <<QwenSocial, qwen_social_header(topic) \o qwen_social_content(content_str)>>
            ELSE None
      [] p = "qwen_midjourney" ->
            IF /\ contains(content_str, MIDJOURNEY_PROMPTS)
               /\ qwen_midjourney_ok(qwen_midjourney_content(content_str))
            THEN <<QwenMidjourney,
                   qwen_midjourney_header(topic) \o qwen_midjourney_content(content_str)>>
            ELSE None
      [] p = "qwen_readme" ->
            <<Readme, qwen_readme(topic, blog_extracted, social_extracted,
                                  midjourney_extracted,
                                  qwen_files_created(blog_extracted, social_extracted,
                                                     midjourney_extracted))>>
      [] p = "main_blog" -> <<MainBlog, main_blog_header(topic) \o main_blog_body(content_str)>>
      [] p = "main_complete" -> <<MainComplete, main_complete_file(topic, content_str)>>
      [] p = "main_images" -> <<MainImages, main_images_file(topic, images)>>
      [] p = "main_readme" -> <<Readme, main_readme(topic)>>
      [] p = "kilo_research" -> <<KiloResearch, kilo_research_file(topic, research_result)>>
      [] p = "kilo_blog" -> <<KiloBlog, kilo_blog_file(topic, content_result)>>
      [] p = "kilo_social" -> <<KiloSocial, kilo_social_file(topic, social_result)>>
      [] p = "kilo_complete" ->
            <<KiloComplete, kilo_complete_file(topic, research_result, content_result,
                                               social_result)>>
      [] p = "kilo_readme" -> <<Readme, kilo_readme(topic)>>
      [] OTHER -> None

\* what a failed write leaves of the file: nothing of it when open() failed
\* ("open"), the file created and empty or with the start of its text when a
\* write failed ("empty", "partial")
WriteFailures == {"open", "empty", "partial"}

failed_write(fs, name, text, how) ==
    IF how = "open" THEN fs
    ELSE IF how = "empty" THEN write(fs, name, <<>>)
    ELSE write(fs, name, SubSeq(text, 1, 1))

\* os.makedirs raises (no permission, a file of that name): nothing is created
Save_MakedirsFails(v, t) ==
    /\ pc = "idle"
    /\ pc' = "raised"
    /\ variant' = v
    /\ topic' = t
    /\ output_dir' = dir_name(IF v = "main" THEN MainRoot
                              ELSE IF v = "qwen" THEN QwenRoot ELSE KiloRoot, t, now)
    /\ exception' = OSError(output_dir')
    /\ UNCHANGED <<content_str, images, research_result, content_result, social_result,
                   files, blog_start, blog_end, social_start, social_end, blog_extracted,
                   social_extracted, midjourney_extracted, files_created, returned, now,
                   disk, result, zip_file, file_name, calls, others>>

\* open() or f.write() of the step at pc raises: the exception leaves
\* save_content_to_files, which writes nothing more
Save_WriteFails(how) ==
    /\ Pending(pc) # None
    /\ pc' = "raised"
    /\ files' = failed_write(files, Pending(pc)[1], Pending(pc)[2], how)
    /\ exception' = OSError(output_dir \o <<"/", Pending(pc)[1]>>)
    /\ UNCHANGED <<variant, topic, content_str, images, research_result, content_result,
                   social_result, output_dir, blog_start, blog_end, social_start,
                   social_end, blog_extracted, social_extracted, midjourney_extracted,
                   files_created, returned, now, disk, result, zip_file, file_name,
                   calls, others>>

\* the except clause of create_content
Create_Except ==
    /\ pc = "raised"
    /\ pc' = "propagated"
    /\ result' = create_content_except(exception).result
    /\ exception' = create_content_except(exception).exception
    /\ UNCHANGED <<variant, topic, content_str, images, research_result, content_result,
                   social_result, output_dir, files, blog_start, blog_end, social_start,
                   social_end, blog_extracted, social_extracted, midjourney_extracted,
                   files_created, returned, now, disk, zip_file, file_name, calls, others>>

\* create_content returns its dictionary with the directory
Create_Return ==
    /\ pc = "done"
    /\ pc' = "returned"
    /\ result' = IF variant = "main" THEN main_result(content_str, images, returned)
                 ELSE IF variant = "qwen" THEN qwen_result(content_str, returned)
                 ELSE kilo_result(research_result, content_result, social_result,
                                  returned)
    /\ UNCHANGED <<variant, topic, content_str, images, research_result, content_result,
                   social_result, output_dir, files, blog_start, blog_end, social_start,
                   social_end, blog_extracted, social_extracted, midjourney_extracted,
                   files_created, returned, now, disk, exception, zip_file,
                   file_name, calls, others>>

-----------------------------------------------------------------------------
(* The specification *)

\* before any call: no text, no directory, the locals unset (-1 for a position)
Init ==
    /\ pc = "idle"
    /\ variant = "none"
    /\ topic = <<>>
    /\ content_str = <<>>
    /\ images = <<>>
    /\ research_result = <<>>
    /\ content_result = <<>>
    /\ social_result = <<>>
    /\ output_dir = <<>>
    /\ files = NoFiles
    /\ blog_start = -1
    /\ blog_end = -1
    /\ social_start = -1
    /\ social_end = -1
    /\ blog_extracted = FALSE
    /\ social_extracted = FALSE
    /\ midjourney_extracted = FALSE
    /\ files_created = 0
    /\ returned = None
    /\ now = 0
    /\ disk = NoFiles
    /\ result = None
    /\ exception = None
    /\ zip_file = NoFiles
    /\ file_name = <<>>
    /\ calls = <<>>
    /\ requested = <<>>
    /\ organic = <<>>
    /\ start_year = 0
    /\ formatted_results = <<>>
    /\ selected_example = <<>>
    /\ text_area = <<>>
    /\ api_keys = FALSE
    /\ button = FALSE

Next ==
    \/ \E in \in QwenInputs : Qwen_Call(in[1], in[2])
    \/ Qwen_SaveComplete
    \/ Qwen_ExtractBlog
    \/ Qwen_ExtractSocial
    \/ Qwen_ExtractMidjourney
    \/ Qwen_WriteReadme
    \/ Qwen_Return
    \/ \E in \in MainInputs : Main_Call(in[1], in[2], in[3])
    \/ Main_WriteBlog
    \/ Main_WriteComplete
    \/ Main_WriteImages
    \/ Main_WriteReadme
    \/ Main_Return
    \/ \E t \in Topics, r \in KiloTexts, c \in KiloTexts, so \in KiloTexts :
            Kilo_Call(t, r, c, so)
    \/ Kilo_WriteResearch
    \/ Kilo_WriteBlog
    \/ Kilo_WriteSocial
    \/ Kilo_WriteComplete
    \/ Kilo_WriteReadme
    \/ Kilo_Return
    \/ \E t \in Topics, r \in KiloTexts, c \in KiloTexts, so \in KiloTexts :
            Streamlit_Download(t, r, c, so)

Spec == Init /\ [][Next]_vars

-----------------------------------------------------------------------------
(* Vocabulary of the properties *)

\* the candidate end markers of the blog section
EndMarkers == {LINKEDIN_POSTS, TWITTER_POSTS, MIDJOURNEY_PROMPTS}

\* the positions where m occurs in s
Occurrences(s, m) == {p \in 0..(Len(s) - Len(m)) : MatchAt(s, m, p)}

\* the first occurrence of m in s, Len(s) + 1 when there is none
FirstPos(s, m) == IF Occurrences(s, m) = {} THEN Len(s) + 1 ELSE MinOf(Occurrences(s, m))

\* the position just after the first '# BLOG POST'
AfterBlogMarker(s) == FirstPos(s, BLOG_POST) + Len(BLOG_POST)

\* sub is a contiguous part of s
IsPartOf(sub, s) == \E p \in 0..(Len(s) - Len(sub)) : MatchAt(s, sub, p)

\* no leading or trailing whitespace
Trimmed(text) ==
    text = <<>> \/ (text[1] \notin Whitespace /\ text[Len(text)] \notin Whitespace)

\* what a file holds after its header of h elements
AfterHeader(file, h) == SubSeq(file, h + 1, Len(file))

\* a save_content_to_files that extracts the blog section has returned
BlogDone == pc = "done" /\ variant \in {"main", "qwen"}
QwenDone == pc = "done" /\ variant = "qwen"
MainDone == pc = "done" /\ variant = "main"

-----------------------------------------------------------------------------
(* C1: when an end-marker candidate occurs only before '# BLOG POST', main.py
   and researcherqwen.py do not use that occurrence as the end of the blog
   section: the section ends at a terminator after its start, or at the end
   of the text.  (main.py takes the first '# LINKEDIN POSTS' of the text
   wherever it is, so this is violated.) *)
C1_EarlierMarkerNotUsed ==
    (/\ BlogDone
     /\ contains(content_str, BLOG_POST)
     /\ \E m \in EndMarkers :
            /\ Occurrences(content_str, m) # {}
            /\ \A p \in Occurrences(content_str, m) : p < FirstPos(content_str, BLOG_POST))
    => /\ blog_start = AfterBlogMarker(content_str)
       /\ blog_end >= blog_start
       /\ \/ blog_end = Len(content_str)
          \/ \E m \in EndMarkers : MatchAt(content_str, m, blog_end)

(* C2: researcherqwen.py ends the blog section at the nearest candidate end
   marker after the blog start, whatever the order of the markers; at the end
   of the text if there is none.  (Original statement: violated.) *)
C2_NearestMarkerEnds ==
    (QwenDone /\ contains(content_str, BLOG_POST))
    => LET after == {p \in UNION {Occurrences(content_str, m) : m \in EndMarkers} :
                        p > AfterBlogMarker(content_str)}
       IN  blog_end = IF after = {} THEN Len(content_str) ELSE MinOf(after)

\* the end the preference order LINKEDIN, TWITTER, MIDJOURNEY gives
PreferredEnd(s) ==
    LET start == AfterBlogMarker(s)
    IN  IF FirstPos(s, LINKEDIN_POSTS) \in (start + 1)..Len(s)
        THEN FirstPos(s, LINKEDIN_POSTS)
        ELSE IF FirstPos(s, TWITTER_POSTS) \in (start + 1)..Len(s)
        THEN FirstPos(s, TWITTER_POSTS)
        ELSE IF FirstPos(s, MIDJOURNEY_PROMPTS) \in (start + 1)..Len(s)
        THEN FirstPos(s, MIDJOURNEY_PROMPTS)
        ELSE Len(s)

(* C2, amended: researcherqwen.py ends the blog section at the first marker, in
   the preference order LINKEDIN, TWITTER, MIDJOURNEY, whose first occurrence
   in the text lies after the blog start, even when another candidate lies
   nearer; at the end of the text if no marker has its first occurrence after
   the start. *)
C2_PreferredMarkerEnds ==
    (QwenDone /\ contains(content_str, BLOG_POST))
    => /\ blog_start = AfterBlogMarker(content_str)
       /\ blog_end = PreferredEnd(content_str)

\* the blog section ran past a nearer '# X/TWITTER POSTS' to '# LINKEDIN POSTS'
C2_Witness ==
    /\ QwenDone
    /\ contains(content_str, BLOG_POST)
    /\ MatchAt(content_str, LINKEDIN_POSTS, blog_end)
    /\ \E p \in (blog_start + 1)..(blog_end - 1) : MatchAt(content_str, TWITTER_POSTS, p)

(* C3: when a candidate end marker occurs both before and after '# BLOG POST',
   its occurrence after the start still terminates the blog section of
   researcherqwen.py: the section ends no later than there.  (The blog loop
   calls find(marker) without a start position, so this is violated.) *)
C3_LaterOccurrenceTerminates ==
    (QwenDone /\ contains(content_str, BLOG_POST))
    => \A m \in EndMarkers :
          LET before == {p \in Occurrences(content_str, m) :
                            p < FirstPos(content_str, BLOG_POST)}
              after == {p \in Occurrences(content_str, m) :
                            p > AfterBlogMarker(content_str)}
          IN  (before # {} /\ after # {})
              => (blog_start <= blog_end /\ blog_end <= MinOf(after))

\* the number of elements of the headers of the three section files
BlogHeaderLen(t) == Len(t) + 6
SectionHeaderLen(t) == Len(t) + 5

\* the section of the text that researcherqwen.py measures, for each file
BlogSection(s) == qwen_blog_content(s)
SocialSection(s) == qwen_social_content(s)
MidjourneySection(s) == qwen_midjourney_content(s)

(* C4: with min_length 100, 50 and 30, a section of researcherqwen.py whose
   trimmed content has min_length - 1 characters is not present, and one with
   exactly min_length characters is present.  (Original statement: the code
   tests len(content) > min_length, so this is violated.) *)
C4_PresentAtMinLength ==
    QwenDone
    => /\ contains(content_str, BLOG_POST)
          => /\ Len(BlogSection(content_str)) = BlogMinLen - 1 => ~blog_extracted
             /\ Len(BlogSection(content_str)) = BlogMinLen
                => (blog_extracted /\ exists(files, QwenBlog))
       /\ contains(content_str, LINKEDIN_POSTS)
          => /\ Len(SocialSection(content_str)) = SocialMinLen - 1 => ~social_extracted
             /\ Len(SocialSection(content_str)) = SocialMinLen
                => (social_extracted /\ exists(files, QwenSocial))
       /\ contains(content_str, MIDJOURNEY_PROMPTS)
          => /\ Len(MidjourneySection(content_str)) = MidjourneyMinLen - 1
                => ~midjourney_extracted
             /\ Len(MidjourneySection(content_str)) = MidjourneyMinLen
                => (midjourney_extracted /\ exists(files, QwenMidjourney))

(* C4, amended: a section whose trimmed content has exactly min_length
   characters (100, 50, 30) is not present, like every shorter one, and one
   with min_length + 1 characters or more is present: its file is written
   and its flag is true. *)
C4_PresentAboveMinLength ==
    QwenDone
    => /\ blog_extracted <=> (/\ contains(content_str, BLOG_POST)
                              /\ Len(BlogSection(content_str)) >= BlogMinLen + 1)
       /\ social_extracted <=> (/\ contains(content_str, LINKEDIN_POSTS)
                                /\ Len(SocialSection(content_str)) >= SocialMinLen + 1)
       /\ midjourney_extracted
          <=> (/\ contains(content_str, MIDJOURNEY_PROMPTS)
               /\ Len(MidjourneySection(content_str)) >= MidjourneyMinLen + 1)
       /\ blog_extracted <=> exists(files, QwenBlog)
       /\ social_extracted <=> exists(files, QwenSocial)
       /\ midjourney_extracted <=> exists(files, QwenMidjourney)

\* a blog section of exactly 100 characters was not extracted
C4_Witness ==
    /\ QwenDone
    /\ contains(content_str, BLOG_POST)
    /\ Len(BlogSection(content_str)) = BlogMinLen
    /\ ~blog_extracted
    /\ ~exists(files, QwenBlog)

\* the first position at or after p that holds no whitespace, Len(s) if none
SkipWhitespace(s, p) ==
    LET rest == {q \in p..(Len(s) - 1) : s[q + 1] \notin Whitespace}
    IN  IF rest = {} THEN Len(s) ELSE MinOf(rest)

(* C5: the content of every section starts just after the section's start
   marker and does not contain that marker, and the threshold is applied to
   the body alone.  (Original statement: the social and MidJourney contents
   of researcherqwen.py start at the marker, so this is violated.) *)
C5_ContentExcludesMarker ==
    QwenDone
    => /\ blog_extracted
          => ~IsPartOf(BLOG_POST, AfterHeader(files[QwenBlog], BlogHeaderLen(topic)))
       /\ social_extracted
          => ~IsPartOf(LINKEDIN_POSTS,
                       AfterHeader(files[QwenSocial], SectionHeaderLen(topic)))
       /\ midjourney_extracted
          => /\ ~IsPartOf(MIDJOURNEY_PROMPTS,
                          AfterHeader(files[QwenMidjourney], SectionHeaderLen(topic)))
             /\ Len(strip(slice(content_str,
                                FirstPos(content_str, MIDJOURNEY_PROMPTS)
                                    + Len(MIDJOURNEY_PROMPTS),
                                Len(content_str)))) >= MidjourneyMinLen

(* C5, amended: the blog content starts at the first character that is not
   whitespace after the first '# BLOG POST', and its threshold is applied to
   the trimmed body; the social and the MidJourney content start at their
   marker, '# LINKEDIN POSTS' and '# MIDJOURNEY PROMPTS', which is part of the
   content and counts towards the threshold. *)
C5_ContentStart ==
    QwenDone
    => /\ blog_extracted
          => LET text == AfterHeader(files[QwenBlog], BlogHeaderLen(topic))
             IN  /\ MatchAt(content_str, text,
                            SkipWhitespace(content_str, AfterBlogMarker(content_str)))
                 /\ Len(text) > BlogMinLen
       /\ social_extracted
          => LET text == AfterHeader(files[QwenSocial], SectionHeaderLen(topic))
             IN  /\ MatchAt(content_str, text, FirstPos(content_str, LINKEDIN_POSTS))
                 /\ MatchAt(text, LINKEDIN_POSTS, 0)
                 /\ Len(text) > SocialMinLen
       /\ midjourney_extracted
          => LET text == AfterHeader(files[QwenMidjourney], SectionHeaderLen(topic))
             IN  /\ MatchAt(content_str, text, FirstPos(content_str, MIDJOURNEY_PROMPTS))
                 /\ MatchAt(text, MIDJOURNEY_PROMPTS, 0)
                 /\ Len(text) > MidjourneyMinLen

\* a MidJourney section was extracted whose body alone is below the threshold
C5_Witness ==
    /\ QwenDone
    /\ midjourney_extracted
    /\ MatchAt(AfterHeader(files[QwenMidjourney], SectionHeaderLen(topic)),
               MIDJOURNEY_PROMPTS, 0)
    /\ Len(files[QwenMidjourney]) - SectionHeaderLen(topic) - Len(MIDJOURNEY_PROMPTS)
           < MidjourneyMinLen

\* the trimmed text between the end of the marker at p and position q
BodyBetween(s, m, p, q) == strip(slice(s, p + Len(m), q))

\* all four markers once each, in the template's order, the blog body with at
\* least b characters, the LinkedIn body with at least SocialMinLen and the
\* MidJourney body with at least MidjourneyMinLen
CanonicalWithBodies(s, b) ==
    LET pb == FirstPos(s, BLOG_POST)
        pl == FirstPos(s, LINKEDIN_POSTS)
        pt == FirstPos(s, TWITTER_POSTS)
        pm == FirstPos(s, MIDJOURNEY_PROMPTS)
    IN  /\ \A m \in EndMarkers \cup {BLOG_POST} : Cardinality(Occurrences(s, m)) = 1
        /\ pb < pl /\ pl < pt /\ pt < pm
        /\ Len(BodyBetween(s, BLOG_POST, pb, pl)) >= b
        /\ Len(BodyBetween(s, LINKEDIN_POSTS, pl, pt)) >= SocialMinLen
        /\ Len(BodyBetween(s, MIDJOURNEY_PROMPTS, pm, Len(s))) >= MidjourneyMinLen

\* every section is extracted, its content trimmed and not empty
AllExtracted ==
    /\ blog_extracted /\ social_extracted /\ midjourney_extracted
    /\ exists(files, QwenBlog) /\ exists(files, QwenSocial) /\ exists(files, QwenMidjourney)
    /\ \A text \in {AfterHeader(files[QwenBlog], BlogHeaderLen(topic)),
                    AfterHeader(files[QwenSocial], SectionHeaderLen(topic)),
                    AfterHeader(files[QwenMidjourney], SectionHeaderLen(topic))} :
           text # <<>> /\ Trimmed(text)

(* C6: for a text with all four markers in canonical order, each followed by a
   body of at least the section's min_length, researcherqwen.py reports every
   section extracted, each content trimmed and not empty.  (Original
   statement: a blog body of exactly 100 characters is not extracted.) *)
C6_CanonicalAllExtracted ==
    (QwenDone /\ CanonicalWithBodies(content_str, BlogMinLen)) => AllExtracted

(* C6, amended: the same with a blog body of more than min_length characters
   (at least 101); for the other sections a body of min_length is enough. *)
C6_CanonicalAboveMinLength ==
    (QwenDone /\ CanonicalWithBodies(content_str, BlogMinLen + 1)) => AllExtracted

\* a canonical text with bodies of 101, 50 and 30 characters was packaged
C6_Witness ==
    /\ QwenDone
    /\ CanonicalWithBodies(content_str, BlogMinLen + 1)
    /\ Len(BodyBetween(content_str, LINKEDIN_POSTS, FirstPos(content_str, LINKEDIN_POSTS),
                       FirstPos(content_str, TWITTER_POSTS))) = SocialMinLen
    /\ AllExtracted

\* none of the four markers occurs in s
NoMarkers(s) == \A m \in EndMarkers \cup {BLOG_POST} : Occurrences(s, m) = {}

\* the icons the README puts before the lines of a section
ReadmeIcons(readme, lines) ==
    {readme[i] : i \in {j \in 1..(Len(readme) - 1) : readme[j + 1] \in lines}}

\* the README shows the failure icon, and only it, for each of the sections
ReadmeAllFailed(readme) ==
    /\ ReadmeIcons(readme, {BlogOkText, BlogFailText}) = {FailIcon}
    /\ ReadmeIcons(readme, {SocialOkText, SocialFailText}) = {FailIcon}
    /\ ReadmeIcons(readme, {MidjourneyOkText, MidjourneyFailText}) = {FailIcon}

(* C7: for a text without any section marker every section is not present: no
   section is flagged as extracted and no section file is written, the README
   of researcherqwen.py shows the failure icon for each section, main.py
   writes the extraction warning, and the call runs to its return of the
   output directory. *)
C7_NoMarkersNothingExtracted ==
    (variant \in {"main", "qwen"} /\ NoMarkers(content_str))
    => /\ ~blog_extracted /\ ~social_extracted /\ ~midjourney_extracted
       /\ DOMAIN files \cap {QwenBlog, QwenSocial, QwenMidjourney} = {}
       /\ pc # "done" => ENABLED (Next /\ pc' # pc)
       /\ QwenDone
          => /\ ReadmeAllFailed(files[Readme])
             /\ returned = output_dir /\ returned # None
       /\ MainDone
          => /\ files[MainBlog] = main_blog_header(topic) \o <<BlogWarning>> \o content_str
             /\ returned = output_dir /\ returned # None

\* a text without markers that is not empty was packaged by researcherqwen.py
C7_Witness ==
    /\ QwenDone
    /\ NoMarkers(content_str)
    /\ content_str # <<>>
    /\ ReadmeAllFailed(files[Readme])

\* the complete file of the variant that ran
CompleteName ==
    IF variant = "main" THEN MainComplete
    ELSE IF variant = "qwen" THEN QwenComplete ELSE KiloComplete

(* C8: the complete file written by main.py and researcherqwen.py is exactly
   the raw text, with nothing before or after it.  (Original statement: both
   write a header first.) *)
C8_CompleteEqualsRaw ==
    BlogDone => files[CompleteName] = content_str

(* C8, amended: the complete file is a header (a title line with the topic,
   the generation time, and the rule '---') followed by exactly the raw text:
   the raw text is the end of the file, with nothing after it, and reading
   the file back and dropping the header yields raw. *)
C8_CompleteEndsWithRaw ==
    BlogDone
    => LET file == files[CompleteName]
           h == Len(file) - Len(content_str)
       IN  /\ h > Len(topic)
           /\ AfterHeader(file, h) = content_str
           /\ file[h] = "---\n\n"
           /\ SubSeq(file, 2, Len(topic) + 1) = topic
           /\ \E i \in 1..h : file[i] = DateTime
           /\ \A i \in 1..h : file[i] = "---\n\n" => i = h

\* researcherqwen.py wrote the complete file of a text that strip() would change
C8_Witness ==
    /\ QwenDone
    /\ content_str # <<>>
    /\ content_str[Len(content_str)] \in Whitespace
    /\ files[QwenComplete] # content_str
    /\ AfterHeader(files[QwenComplete], Len(files[QwenComplete]) - Len(content_str))
           = content_str

(* C9: after save_content_to_files returns, in main.py, researcherqwen.py and
   researcherkilo.py, the output directory holds one complete file of which
   every unprocessed input text is a contiguous part, whichever sections were
   extracted. *)
C9_CompleteHoldsInput ==
    pc = "done"
    => /\ exists(files, CompleteName)
       /\ DOMAIN files \cap {MainComplete, QwenComplete, KiloComplete} = {CompleteName}
       /\ variant \in {"main", "qwen"} => IsPartOf(content_str, files[CompleteName])
       /\ variant = "kilo"
          => /\ IsPartOf(research_result, files[CompleteName])
             /\ IsPartOf(content_result, files[CompleteName])
             /\ IsPartOf(social_result, files[CompleteName])

\* researcherqwen.py kept a text of more than 300 characters of which it
\* extracted no section
C9_Witness ==
    /\ QwenDone
    /\ Len(content_str) > 300
    /\ ~blog_extracted /\ ~social_extracted /\ ~midjourney_extracted
    /\ IsPartOf(content_str, files[QwenComplete])

(* C10: every expected section file is written: with the header and the
   content when the section is present, with an extraction-failed warning
   when it is not.  (Original statement: researcherqwen.py writes no file for
   a section that is not present.) *)
C10_SectionFileAlwaysWritten ==
    /\ MainDone => exists(files, MainBlog)
    /\ QwenDone
       => /\ exists(files, QwenBlog)
          /\ exists(files, QwenSocial)
          /\ exists(files, QwenMidjourney)

(* C10, amended: main.py always writes its blog file: the title and time
   header, followed by the content when '# BLOG POST' occurs (there is no
   threshold) and by the extraction-failed warning and the raw text when it
   does not.  researcherqwen.py writes the file of a section, the title and
   time header followed by the content, only when the section is present;
   for a section that is not present it writes no file and no warning. *)
C10_SectionFileWritten ==
    /\ MainDone
       => LET file == files[MainBlog]
              rest == AfterHeader(file, BlogHeaderLen(topic) - 1)
          IN  /\ file[1] = "# " /\ SubSeq(file, 2, Len(topic) + 1) = topic
              /\ file[Len(topic) + 4] = DateTime
              /\ IF Occurrences(content_str, BLOG_POST) # {}
                 THEN /\ BlogWarning \notin {rest[i] : i \in 1..Len(rest)}
                      /\ Trimmed(rest)
                      /\ rest # <<>>
                         => MatchAt(content_str, rest,
                                    SkipWhitespace(content_str,
                                                   AfterBlogMarker(content_str)))
                 ELSE rest = <<BlogWarning>> \o content_str
    /\ QwenDone
       => /\ exists(files, QwenBlog) <=> blog_extracted
          /\ exists(files, QwenSocial) <=> social_extracted
          /\ exists(files, QwenMidjourney) <=> midjourney_extracted
          /\ \A name \in DOMAIN files \ {QwenComplete, Readme} :
                LET file == files[name]
                    h == IF name = QwenBlog THEN BlogHeaderLen(topic)
                         ELSE SectionHeaderLen(topic)
                IN  /\ file[1] \in {"# ", "# Social Media Content: ",
                                    "# MidJourney Prompts: "}
                    /\ SubSeq(file, 2, Len(topic) + 1) = topic
                    /\ file[h - 1] = DateTime
                    /\ IsPartOf(AfterHeader(file, h), content_str)
                    /\ AfterHeader(file, h) # <<>>
                    /\ \A i \in 1..Len(file) : file[i] # BlogWarning

\* researcherqwen.py returned without a blog file although the marker was there
C10_Witness ==
    /\ QwenDone
    /\ contains(content_str, BLOG_POST)
    /\ ~exists(files, QwenBlog)
    /\ exists(files, QwenSocial)

-----------------------------------------------------------------------------
\* the blog extraction of main.py failed: the marker was not found
MainBlogFailed == ~contains(content_str, BLOG_POST)

\* the icon the README of the variant shows for the blog section
BlogIcons ==
    IF variant = "main" THEN ReadmeIcons(files[Readme], {MainBlogIncluded})
    ELSE ReadmeIcons(files[Readme], {BlogOkText, BlogFailText})

(* C11: when the extraction of a section fails, save_content_to_files of
   main.py and researcherqwen.py still returns, the raw text is in the
   complete file, the file of that section is not in the output directory,
   and the README reports that section with the failure icon.  (main.py
   writes the blog file with a warning and its README shows the success icon
   for the blog post whatever happened, so this is violated.) *)
C11_FailureOmittedAndReported ==
    /\ QwenDone
       => /\ returned = output_dir
          /\ IsPartOf(content_str, files[QwenComplete])
          /\ ~blog_extracted
             => (~exists(files, QwenBlog) /\ BlogIcons = {FailIcon})
          /\ ~social_extracted
             => /\ ~exists(files, QwenSocial)
                /\ ReadmeIcons(files[Readme], {SocialOkText, SocialFailText}) = {FailIcon}
          /\ ~midjourney_extracted
             => /\ ~exists(files, QwenMidjourney)
                /\ ReadmeIcons(files[Readme], {MidjourneyOkText, MidjourneyFailText})
                       = {FailIcon}
    /\ (MainDone /\ MainBlogFailed)
       => /\ returned = output_dir
          /\ IsPartOf(content_str, files[MainComplete])
          /\ ~exists(files, MainBlog)
          /\ BlogIcons = {FailIcon}

(* C12: in the README of main.py and of researcherqwen.py the line of each
   section carries the success icon if the section was extracted in this call
   and the failure icon if it was not.  (The README of main.py is a fixed
   text: it shows the success icon for the blog post also when the blog file
   holds the extraction-failed warning, so this is violated.) *)
C12_IconIffExtracted ==
    /\ QwenDone
       => /\ BlogIcons = {IF blog_extracted THEN OkIcon ELSE FailIcon}
          /\ ReadmeIcons(files[Readme], {SocialOkText, SocialFailText})
                 = {IF social_extracted THEN OkIcon ELSE FailIcon}
          /\ ReadmeIcons(files[Readme], {MidjourneyOkText, MidjourneyFailText})
                 = {IF midjourney_extracted THEN OkIcon ELSE FailIcon}
    /\ MainDone
       => BlogIcons = {IF MainBlogFailed THEN FailIcon ELSE OkIcon}

\* the five files researcherqwen.py reports against
QwenExpected == {QwenBlog, QwenSocial, QwenMidjourney, QwenComplete, Readme}

\* the count K the README prints in 'K/5 files created'
ReadmeCount(readme) ==
    LET i == CHOOSE j \in 1..Len(readme) : readme[j] = "**Success Rate:** "
    IN  readme[i + 1]

\* the lines of the README's file list that carry the success icon
ReadmeOkLines(readme) ==
    {j \in 2..(Len(readme) - 1) : readme[j - 1] = "- " /\ readme[j] = OkIcon}

(* C13: the count K of 'K/5 files created' in the README of researcherqwen.py
   is the number of the five expected files that the call wrote: it is 5 when
   every section was extracted, and it is the number of files the README
   lists with the success icon.  (files_created starts at 1 for the complete
   file and never counts the README: K is 4 when all five files are written,
   so this is violated.) *)
C13_CountEqualsFilesWritten ==
    QwenDone
    => /\ ReadmeCount(files[Readme]) = ToString(files_created)
       /\ files_created = Cardinality(DOMAIN files \cap QwenExpected)
       /\ files_created = Cardinality(ReadmeOkLines(files[Readme]))
       /\ (blog_extracted /\ social_extracted /\ midjourney_extracted)
          => files_created = ExpectedFiles

-----------------------------------------------------------------------------
(* The names of the output directory and of the archive, for many topics *)

\* characters of a topic: kept ones (letter, digit, space, hyphen, underscore)
\* and removed ones
TopicChars == <<"a", "7", " ", "-", "_", ":", "!">>

\* every topic of at most MaxTopicLen of these characters
ShortTopics == UNION {[1..k -> {TopicChars[i] : i \in 1..Len(TopicChars)}] : k \in 0..MaxTopicLen}

\* topics around the 50 characters of the slug, ending in kept and removed
\* characters and in spaces
LongTopics ==
    {Rep("a", n) \o tl : n \in {48, 49, 50, 51},
                         tl \in {<<>>, <<" ", "b">>, <<":", " ", "!">>}}

SlugTopics == ShortTopics \cup LongTopics

\* every handler that names its output after the topic, called with the empty
\* text
SlugNext ==
    \/ \E t \in SlugTopics : Qwen_Call(t, <<>>)
    \/ Qwen_SaveComplete
    \/ Qwen_ExtractBlog
    \/ Qwen_ExtractSocial
    \/ Qwen_ExtractMidjourney
    \/ Qwen_WriteReadme
    \/ Qwen_Return
    \/ \E t \in SlugTopics : Main_Call(t, <<>>, <<>>)
    \/ Main_WriteBlog
    \/ Main_WriteComplete
    \/ Main_WriteImages
    \/ Main_WriteReadme
    \/ Main_Return
    \/ \E t \in SlugTopics : Kilo_Call(t, <<>>, <<>>, <<>>)
    \/ Kilo_WriteResearch
    \/ Kilo_WriteBlog
    \/ Kilo_WriteSocial
    \/ Kilo_WriteComplete
    \/ Kilo_WriteReadme
    \/ Kilo_Return
    \/ \E t \in SlugTopics : Streamlit_Download(t, <<>>, <<>>, <<>>)

SlugSpec == Init /\ [][SlugNext]_vars

\* the characters a slug may hold
SlugChars == Alnum \cup {" ", "-", "_"}

\* the slug in the name of the output directory, root + slug + "_" + timestamp,
\* or of the archive, slug + "_" + timestamp + ".zip"
SlugOf ==
    IF variant = "streamlit" THEN SubSeq(file_name, 1, Len(file_name) - 4)
    ELSE SubSeq(output_dir, 2, Len(output_dir) - 3)

\* the characters of t that a slug may hold, in their order
KeptChars(t) == SelectSeq(t, LAMBDA c : c \in SlugChars)

(* C14: for every topic, the slug in the name of the output directory (main.py,
   researcherqwen.py, researcherkilo.py) and of the archive (streamlit_app.py)
   holds only characters of the topic that are alphanumeric, space, hyphen or
   underscore, in their original order, and at most 50 of them; every other
   character of the topic is removed.  The slug is the start of the kept
   characters of the topic, and what it leaves out of them, when it is
   shorter than 50, is trailing spaces only. *)
C14_SlugSafe ==
    variant # "none"
    => LET slug == SlugOf
           kept == KeptChars(topic)
       IN  /\ Len(slug) <= SlugLen
           /\ \A i \in 1..Len(slug) : slug[i] \in SlugChars
           /\ Len(slug) <= Len(kept)
           /\ slug = SubSeq(kept, 1, Len(slug))
           /\ Len(slug) < SlugLen
              => \A i \in (Len(slug) + 1)..Len(kept) : kept[i] = " "

\* a topic of more than 50 characters with ':' and '!' was cut to a slug of 50
C14_Witness ==
    /\ variant = "qwen"
    /\ pc = "done"
    /\ Len(topic) > SlugLen
    /\ \E i \in 1..Len(topic) : topic[i] \in {":", "!"}
    /\ Len(SlugOf) = SlugLen
    /\ returned = output_dir

-----------------------------------------------------------------------------
\* the steps after which the complete file of the running call is written
CompleteWritten ==
    \/ variant = "qwen" /\ pc \notin {"idle", "qwen_complete"}
    \/ variant = "main" /\ pc \in {"main_images", "main_readme", "main_return", "done"}

\* the file ends with the text
EndsWith(file, text) ==
    /\ Len(file) >= Len(text)
    /\ AfterHeader(file, Len(file) - Len(text)) = text

\* the longest text for which the step that follows is computed a second time
\* to see that it exists: the empty text, the markers alone in every order,
\* and the texts of one or two sections with short bodies
StepLen == 80

\* one more step of the save_content_to_files of main.py or researcherqwen.py
SaveStep ==
    \/ Qwen_SaveComplete \/ Qwen_ExtractBlog \/ Qwen_ExtractSocial
    \/ Qwen_ExtractMidjourney \/ Qwen_WriteReadme \/ Qwen_Return
    \/ Main_WriteBlog \/ Main_WriteComplete \/ Main_WriteImages
    \/ Main_WriteReadme \/ Main_Return

(* C15: the extraction of main.py and researcherqwen.py never raises, for any
   raw text (empty, markers in any order, repeated or missing): no step of a
   call is stuck (for the texts of at most StepLen characters the step that
   follows is shown to exist), a call that returned returned its directory,
   what it wrote for a section is part of the raw text, and the raw text is
   written to the complete file whatever the extraction gave, also when
   every section is reported not present. *)
C15_ExtractionNeverRaises ==
    variant \in {"main", "qwen"}
    => /\ (pc # "done" /\ Len(content_str) <= StepLen) => ENABLED SaveStep
       /\ CompleteWritten
          => /\ exists(files, CompleteName)
             /\ EndsWith(files[CompleteName], content_str)
       /\ pc = "done"
          => /\ returned = output_dir
             /\ CompleteWritten
             /\ variant = "qwen"
                => /\ blog_extracted
                      => IsPartOf(AfterHeader(files[QwenBlog], BlogHeaderLen(topic)),
                                  content_str)
                   /\ social_extracted
                      => IsPartOf(AfterHeader(files[QwenSocial], SectionHeaderLen(topic)),
                                  content_str)
                   /\ midjourney_extracted
                      => IsPartOf(AfterHeader(files[QwenMidjourney],
                                              SectionHeaderLen(topic)), content_str)

\* the worst case: a text with a repeated marker of which researcherqwen.py
\* extracted no section, and which is in the complete file
C15_Witness ==
    /\ QwenDone
    /\ Cardinality(Occurrences(content_str, BLOG_POST)) > 1
    /\ ~blog_extracted /\ ~social_extracted /\ ~midjourney_extracted
    /\ DOMAIN files = {QwenComplete, Readme}
    /\ EndsWith(files[QwenComplete], content_str)

-----------------------------------------------------------------------------
(* create_content with writes that may fail *)

\* a text of which every section is extracted, one without markers, one with
\* the social section only
FaultTexts == {CanonicalText(101, 34, 10, 11), RawText(<<>>, 10), RawText(<<2>>, 34)}

FaultNext ==
    \/ \E c \in FaultTexts : Qwen_Call(PlainTopic, c)
    \/ Qwen_SaveComplete
    \/ Qwen_ExtractBlog
    \/ Qwen_ExtractSocial
    \/ Qwen_ExtractMidjourney
    \/ Qwen_WriteReadme
    \/ Qwen_Return
    \/ \E c \in FaultTexts, imgs \in ImageLists : Main_Call(PlainTopic, c, imgs)
    \/ Main_WriteBlog
    \/ Main_WriteComplete
    \/ Main_WriteImages
    \/ Main_WriteReadme
    \/ Main_Return
    \/ \E r \in KiloTexts : Kilo_Call(PlainTopic, r, RawText(<<>>, 10), RawText(<<>>, 10))
    \/ Kilo_WriteResearch
    \/ Kilo_WriteBlog
    \/ Kilo_WriteSocial
    \/ Kilo_WriteComplete
    \/ Kilo_WriteReadme
    \/ Kilo_Return
    \/ \E v \in {"main", "qwen", "kilo"}, t \in Topics : Save_MakedirsFails(v, t)
    \/ \E how \in WriteFailures : Save_WriteFails(how)
    \/ Create_Except
    \/ Create_Return

FaultSpec == Init /\ [][FaultNext]_vars

\* the files of the steps i..j of the running call that open a file
StepsWritten(steps, i, j) ==
    \A k \in i..j :
        Pending(steps[k]) # None
        => /\ exists(files, Pending(steps[k])[1])
           /\ files[Pending(steps[k])[1]] = Pending(steps[k])[2]

StepsNotWritten(steps, i, j) ==
    \A k \in i..j :
        Pending(steps[k]) # None => ~exists(files, Pending(steps[k])[1])

(* C16: when os.makedirs or the opening or writing of a file fails inside the
   save_content_to_files of main.py, researcherqwen.py or researcherkilo.py,
   the OSError leaves create_content as an exception: save_content_to_files
   returns nothing, create_content returns no dictionary, nothing is written
   after the failure (the failed write is not tried again and the later files
   are not written), and every file written before it stays as it was
   written.  Without a failure create_content returns the dictionary with
   the directory. *)
C16_WriteFailurePropagates ==
    /\ pc \in {"raised", "propagated"}
       => /\ returned = None
          /\ result = None
          /\ exception # None
          /\ exception.type = "OSError"
          /\ pc = "raised" => ENABLED Create_Except
          /\ pc = "propagated" => ~ENABLED FaultNext
          /\ LET steps == WriteSteps(variant)
                 path == exception.filename
             IN  IF path = output_dir
                 THEN files = NoFiles
                 ELSE \E i \in 1..Len(steps) :
                        /\ Pending(steps[i]) # None
                        /\ path = output_dir \o <<"/", Pending(steps[i])[1]>>
                        /\ StepsWritten(steps, 1, i - 1)
                        /\ StepsNotWritten(steps, i + 1, Len(steps))
                        /\ exists(files, Pending(steps[i])[1])
                           => /\ Len(files[Pending(steps[i])[1]]) <= 1
                              /\ files[Pending(steps[i])[1]] # Pending(steps[i])[2]
    /\ pc = "returned"
       => /\ exception = None
          /\ result # None
          /\ result.output_directory = output_dir
          /\ StepsWritten(WriteSteps(variant), 1, Len(WriteSteps(variant)))

\* the writing of social_media_posts.md failed after the complete file and
\* the blog file were written: the exception reached the caller, the two
\* files are there, the README is not
C16_Witness ==
    /\ pc = "propagated"
    /\ variant = "qwen"
    /\ exception # None
    /\ exception.filename = output_dir \o <<"/", QwenSocial>>
    /\ result = None
    /\ exists(files, QwenComplete)
    /\ exists(files, QwenBlog)
    /\ files[QwenBlog] = qwen_blog_header(topic) \o qwen_blog_content(content_str)
    /\ exists(files, QwenSocial)
    /\ files[QwenSocial] = <<"# Social Media Content: ">>
    /\ ~exists(files, QwenMidjourney)
    /\ ~exists(files, Readme)

-----------------------------------------------------------------------------
\* where the README has the line of a section
LinePos(readme, lines) == CHOOSE j \in 1..Len(readme) : readme[j] \in lines

\* the number of elements of the README before its file list
ReadmeHeadLen(t) == Len(t) + 12

(* C17: researcherqwen.py extracts, writes and reports the sections in the
   fixed order blog, social media, MidJourney prompts, whatever the order of
   the markers in the text: a section's file is written and its flag set
   only at the section's own step, the steps come in that order, and the
   three section lines of the README are at the same places, in that order,
   for every input. *)
C17_CanonicalOrder ==
    variant = "qwen"
    => /\ pc \in {"qwen_complete", "qwen_blog"}
          => /\ DOMAIN files \cap {QwenBlog, QwenSocial, QwenMidjourney} = {}
             /\ ~blog_extracted /\ ~social_extracted /\ ~midjourney_extracted
       /\ pc = "qwen_social"
          => /\ DOMAIN files \cap {QwenSocial, QwenMidjourney} = {}
             /\ ~social_extracted /\ ~midjourney_extracted
             /\ exists(files, QwenBlog) <=> blog_extracted
       /\ pc = "qwen_midjourney"
          => /\ ~exists(files, QwenMidjourney)
             /\ ~midjourney_extracted
             /\ exists(files, QwenSocial) <=> social_extracted
       /\ pc \in {"qwen_blog", "qwen_social", "qwen_midjourney"} => ~exists(files, Readme)
       /\ exists(files, Readme)
          => LET readme == files[Readme]
                 h == ReadmeHeadLen(topic)
             IN  /\ LinePos(readme, {BlogOkText, BlogFailText}) = h + 3
                 /\ LinePos(readme, {SocialOkText, SocialFailText}) = h + 6
                 /\ LinePos(readme, {MidjourneyOkText, MidjourneyFailText}) = h + 9
                 /\ \A j \in 1..Len(readme) :
                        readme[j] \in {BlogOkText, BlogFailText, SocialOkText,
                                       SocialFailText, MidjourneyOkText,
                                       MidjourneyFailText}
                        => j \in {h + 3, h + 6, h + 9}

\* the markers came in the opposite order, MidJourney, LinkedIn, blog, and
\* every section was extracted
C17_Witness ==
    /\ QwenDone
    /\ contains(content_str, BLOG_POST)
    /\ FirstPos(content_str, MIDJOURNEY_PROMPTS) < FirstPos(content_str, LINKEDIN_POSTS)
    /\ FirstPos(content_str, LINKEDIN_POSTS) < FirstPos(content_str, BLOG_POST)
    /\ blog_extracted /\ social_extracted /\ midjourney_extracted
    /\ LinePos(files[Readme], {BlogOkText}) < LinePos(files[Readme], {SocialOkText})
    /\ LinePos(files[Readme], {SocialOkText}) < LinePos(files[Readme], {MidjourneyOkText})

-----------------------------------------------------------------------------
(* main.py's save_content_to_files with every list of image results *)

ImagesNext ==
    \/ \E imgs \in AllImageLists : Main_Call(PlainTopic, RawText(<<>>, 0), imgs)
    \/ Main_WriteBlog
    \/ Main_WriteComplete
    \/ Main_WriteImages
    \/ Main_WriteReadme
    \/ Main_Return

ImagesSpec == Init /\ [][ImagesNext]_vars

\* the number of elements of the heading of images_generated.txt
ImagesHeadLen(t) == Len(t) + 4

(* C18: for every ordered list of image result strings, images_generated.txt
   is the heading (title with the topic, rule) followed by exactly one entry
   per result, in the order of the list: the index line 'Image i:', i
   counting from 1 without gaps, then the result string unchanged and an
   empty line; the empty list gives the heading alone. *)
C18_ImageEntries ==
    (variant = "main" /\ exists(files, MainImages))
    => LET file == files[MainImages]
           h == ImagesHeadLen(topic)
           body == AfterHeader(file, h)
       IN  /\ SubSeq(file, 1, h) =
                  <<"GENERATED IMAGES - ">> \o topic \o <<"\n", Rule50, "\n\n">>
           /\ Len(body) = 5 * Len(images)
           /\ \A i \in 1..Len(images) :
                  SubSeq(body, 5 * (i - 1) + 1, 5 * i)
                      = <<"Image ", ToString(i), ":\n", images[i], "\n\n">>
           /\ images = <<>> => Len(file) = h

\* a list of three results, the first given again as the third, was written
C18_Witness ==
    /\ MainDone
    /\ Len(images) = 3
    /\ images[1] = images[3]
    /\ images[1] # images[2]
    /\ Len(files[MainImages]) = ImagesHeadLen(topic) + 15

-----------------------------------------------------------------------------
\* the same set of names, each with the same content
SameMapping(a, b) == DOMAIN a = DOMAIN b /\ \A n \in DOMAIN a : a[n] = b[n]

\* the directory researcherkilo.py writes for a topic and three results
KiloDirectory(t, r, c, so) ==
    write(write(write(write(write(NoFiles,
        KiloResearch, kilo_research_file(t, r)),
        KiloBlog, kilo_blog_file(t, c)),
        KiloSocial, kilo_social_file(t, so)),
        KiloComplete, kilo_complete_file(t, r, c, so)),
        Readme, kilo_readme(t))

(* C19: for the same topic and the same research, content and social results
   the archive of create_download_zip (streamlit_app.py) and the directory
   written by researcherkilo.py hold the same mapping from file name to
   content.  (The complete file has another name in the archive, and no file
   has the same content in both, so this is violated.) *)
C19_ZipEqualsDirectory ==
    /\ (pc = "done" /\ variant = "kilo")
       => /\ SameMapping(files, KiloDirectory(topic, research_result, content_result,
                                              social_result))
          /\ SameMapping(files, create_download_zip(topic, research_result,
                                                    content_result, social_result))
    /\ pc = "downloaded"
       => SameMapping(zip_file, KiloDirectory(topic, research_result, content_result,
                                              social_result))

-----------------------------------------------------------------------------
(* One call after another: the script is run again on the same disk *)

\* the second the clock may reach and the runs that may be followed by another
MaxSeconds == 1
MaxCalls == 2

\* a topic with a text that has the social section only and with a text
\* without markers, a second topic with the same safe_topic and a third with
\* another
CallInputs ==
    {<<PlainTopic, RawText(<<2>>, 34)>>, <<PlainTopic, RawText(<<>>, 10)>>,
     <<<<"A", "I", "!">>, RawText(<<>>, 10)>>, <<<<"M", "L">>, RawText(<<2>>, 34)>>}

\* what os.makedirs and the writes of a call leave on the disk, whatever the
\* process does next
disk_after(d, dir, fs) == [x \in DOMAIN d \cup {dir} |-> IF x = dir THEN fs ELSE d[x]]

\* the text of a section file after its header
after_header(file, header) == SubSeq(file, Len(header) + 1, Len(file))

\* what the extraction of the running call has yielded: for each section the
\* present flag and, when it is present, the content written after the header
Extraction ==
    [blog |-> blog_extracted,
     blog_content |-> IF blog_extracted
                      THEN after_header(files[QwenBlog], qwen_blog_header(topic))
                      ELSE <<>>,
     social |-> social_extracted,
     social_content |-> IF social_extracted
                        THEN after_header(files[QwenSocial], qwen_social_header(topic))
                        ELSE <<>>,
     midjourney |-> midjourney_extracted,
     midjourney_content |-> IF midjourney_extracted
                            THEN after_header(files[QwenMidjourney],
                                              qwen_midjourney_header(topic))
                            ELSE <<>>]

\* the script ends after the call returned and is started again, dt seconds
\* after it read the clock: the directory stays on the disk, the new process
\* has none of the old one's values
Run_Again(dt) ==
    /\ pc = "done"
    /\ Len(calls) < MaxCalls
    /\ now + dt <= MaxSeconds
    /\ now' = now + dt
    /\ disk' = disk_after(disk, output_dir, files)
    /\ calls' = Append(calls, [topic |-> topic, content |-> content_str,
                               dir |-> returned, extraction |-> Extraction])
    /\ pc' = "idle"
    /\ variant' = "none"
    /\ topic' = <<>>
    /\ content_str' = <<>>
    /\ output_dir' = <<>>
    /\ files' = NoFiles
    /\ blog_start' = -1
    /\ blog_end' = -1
    /\ social_start' = -1
    /\ social_end' = -1
    /\ blog_extracted' = FALSE
    /\ social_extracted' = FALSE
    /\ midjourney_extracted' = FALSE
    /\ files_created' = 0
    /\ returned' = None
    /\ UNCHANGED <<images, research_result, content_result, social_result, result,
                   exception, zip_file, file_name, others>>

CallsNext ==
    \/ \E in \in CallInputs : Qwen_Call(in[1], in[2])
    \/ Qwen_SaveComplete
    \/ Qwen_ExtractBlog
    \/ Qwen_ExtractSocial
    \/ Qwen_ExtractMidjourney
    \/ Qwen_WriteReadme
    \/ Qwen_Return
    \/ \E dt \in 0..MaxSeconds : Run_Again(dt)

CallsSpec == Init /\ [][CallsNext]_vars

\* the directories on the disk, the one of the running call included
FileSystem == IF output_dir = <<>> THEN disk ELSE disk_after(disk, output_dir, files)

\* the calls that have returned, the one of this run included
Returned ==
    IF pc = "done"
    THEN Append(calls, [topic |-> topic, content |-> content_str, dir |-> returned,
                        extraction |-> Extraction])
    ELSE calls

\* the calls that have named their directory, the one of this run included
Started ==
    IF pc = "idle" THEN calls
    ELSE Append(calls, [topic |-> topic, content |-> content_str, dir |-> output_dir])

\* the files one call of researcherqwen.py writes and their content
QwenWritten(t, c) ==
    LET b == contains(c, BLOG_POST) /\ qwen_blog_ok(qwen_blog_content(c))
        so == contains(c, LINKEDIN_POSTS) /\ qwen_social_ok(qwen_social_content(c))
        m == contains(c, MIDJOURNEY_PROMPTS)
             /\ qwen_midjourney_ok(qwen_midjourney_content(c))
        f1 == write(NoFiles, QwenComplete, qwen_complete_file(t, c))
        f2 == IF b THEN write(f1, QwenBlog, qwen_blog_header(t) \o qwen_blog_content(c))
              ELSE f1
        f3 == IF so THEN write(f2, QwenSocial,
                               qwen_social_header(t) \o qwen_social_content(c))
              ELSE f2
        f4 == IF m THEN write(f3, QwenMidjourney,
                              qwen_midjourney_header(t) \o qwen_midjourney_content(c))
              ELSE f3
    IN  write(f4, Readme, qwen_readme(t, b, so, m, qwen_files_created(b, so, m)))

\* new over old: the files of new, and those of old that new does not have
Overlay(old, new) ==
    [n \in DOMAIN old \cup DOMAIN new |-> IF n \in DOMAIN new THEN new[n] ELSE old[n]]

\* what the directory dir holds after the first k of the calls cs
RECURSIVE DirAfter(_, _, _)
DirAfter(cs, dir, k) ==
    IF k = 0 THEN NoFiles
    ELSE IF cs[k].dir = dir
         THEN Overlay(DirAfter(cs, dir, k - 1), QwenWritten(cs[k].topic, cs[k].content))
         ELSE DirAfter(cs, dir, k - 1)

\* a call is writing into the directory dir
Running(dir) == pc \notin {"idle", "done"} /\ output_dir = dir

\* the second of a directory name, the last element of its timestamp
SecondOf(dir) == dir[Len(dir)]

(* C20 as stated: every call that returned has a directory that holds the
   files written by that call, with that call's content, and nothing else,
   whatever other calls were made before or after it, in the same second
   and with another topic included.  (Two calls in the same second whose
   topics have the same safe_topic share the directory, so this is violated.) *)
C20_CallsIndependent ==
    \A i \in DOMAIN Returned :
        /\ Returned[i].dir \in DOMAIN FileSystem
        /\ FileSystem[Returned[i].dir]
           = QwenWritten(Returned[i].topic, Returned[i].content)

(* C20: calls are independent unless they fall into the same second with
   topics of the same safe_topic.  The directory of a call is named by the
   safe_topic of its topic and the second it started in, so two calls have
   the same directory exactly when both are the same.  A returned call that
   shares its directory with no other call has in it the files it wrote,
   with its content, and nothing else.  Calls that share a directory write
   over each other: once they have returned, the directory holds, for each
   file name, the content of the last call that wrote it, so a file of an
   earlier call that a later call did not write stays in it. *)
C20_IndependentUnlessSameSecond ==
    /\ \A i \in DOMAIN Started :
            /\ \E s \in 0..MaxSeconds :
                    Started[i].dir = dir_name(QwenRoot, Started[i].topic, s)
            /\ \A j \in DOMAIN Started :
                    (Started[j].dir = Started[i].dir)
                    <=> /\ safe_topic(Started[j].topic) = safe_topic(Started[i].topic)
                        /\ SecondOf(Started[j].dir) = SecondOf(Started[i].dir)
    /\ \A i \in DOMAIN Returned :
            LET d == Returned[i].dir
                sharing == {j \in DOMAIN Started : Started[j].dir = d}
            IN  /\ d \in DOMAIN FileSystem
                /\ sharing = {i}
                   => FileSystem[d]
                      = QwenWritten(Returned[i].topic, Returned[i].content)
                /\ ~Running(d) => FileSystem[d] = DirAfter(Returned, d, Len(Returned))

\* three calls have returned: the first two in the same second with topics of
\* the same safe_topic, the first with a social section and the second
\* without, so the social file of the first is in the directory of the second;
\* the third has a directory of its own
C20_Witness ==
    /\ Len(Returned) = 3
    /\ Returned[1].dir = Returned[2].dir
    /\ Returned[1].topic # Returned[2].topic
    /\ Returned[3].dir # Returned[1].dir
    /\ exists(QwenWritten(Returned[1].topic, Returned[1].content), QwenSocial)
    /\ ~exists(QwenWritten(Returned[2].topic, Returned[2].content), QwenSocial)
    /\ exists(FileSystem[Returned[2].dir], QwenSocial)
    /\ FileSystem[Returned[3].dir]
       = QwenWritten(Returned[3].topic, Returned[3].content)

-----------------------------------------------------------------------------
(* C21: the extraction is a function of the raw text alone.  Any two calls
   that returned and were given the same raw text have yielded the same
   present flag and the same content for every section, whatever their
   topics, however many runs came before each of them and whatever those
   left on the disk. *)
C21_ExtractionPure ==
    \A i \in DOMAIN Returned : \A j \in DOMAIN Returned :
        Returned[i].content = Returned[j].content
        => Returned[i].extraction = Returned[j].extraction

\* three calls have returned: the first and the third were given the same raw
\* text, with different topics and another text in between, and both have
\* extracted the social section with the same content
C21_Witness ==
    /\ Len(Returned) = 3
    /\ Returned[1].content = Returned[3].content
    /\ Returned[1].content # Returned[2].content
    /\ Returned[1].topic # Returned[3].topic
    /\ Returned[3].extraction.social
    /\ ~Returned[2].extraction.social
    /\ Returned[3].extraction.social_content # <<>>
    /\ Returned[3].extraction.social_content = Returned[1].extraction.social_content

-----------------------------------------------------------------------------
\* the social section of researcherqwen.py has been extracted or given up
SocialDone ==
    variant = "qwen" /\ pc \in {"qwen_midjourney", "qwen_readme", "qwen_return", "done"}

\* the first '# X/TWITTER POSTS' after the first '# LINKEDIN POSTS', -1 if none
TwitterAfterLinkedin(s) ==
    IF contains(s, LINKEDIN_POSTS)
    THEN find(s, TWITTER_POSTS, find(s, LINKEDIN_POSTS, 0) + 1)
    ELSE -1

\* where a social section that includes the Twitter section ends: at the
\* '# MIDJOURNEY PROMPTS' that follows the Twitter marker, or at the end
EndWithTwitter(s) ==
    LET mj == find(s, MIDJOURNEY_PROMPTS, TwitterAfterLinkedin(s) + 1)
    IN  IF mj # -1 THEN mj ELSE Len(s)

(* C22: whenever the raw text has '# LINKEDIN POSTS' followed later by
   '# X/TWITTER POSTS', the social section of researcherqwen.py includes the
   Twitter section: it runs from the LinkedIn marker to the
   '# MIDJOURNEY PROMPTS' that follows the Twitter marker, or to the end of
   the text, and that is what social_media_posts.md holds after its header.
   (The end-marker loop stops at the Twitter marker and the inclusion that
   follows it does not apply then, so this is violated.) *)
C22_TwitterIncluded ==
    (SocialDone /\ TwitterAfterLinkedin(content_str) # -1)
    => /\ social_end = EndWithTwitter(content_str)
       /\ social_extracted
          => files[QwenSocial]
             = qwen_social_header(topic)
               \o strip(slice(content_str, social_start, EndWithTwitter(content_str)))

-----------------------------------------------------------------------------
\* the LinkedIn section by itself: from the first '# LINKEDIN POSTS' to the
\* nearest Twitter or MidJourney marker after it, or to the end of the text
LinkedinSection(s) ==
    LET start == find(s, LINKEDIN_POSTS, 0)
        tw == find(s, TWITTER_POSTS, start + 1)
        mj == find(s, MIDJOURNEY_PROMPTS, start + 1)
        end == IF tw = -1 /\ mj = -1 THEN Len(s)
               ELSE IF tw = -1 THEN mj
               ELSE IF mj = -1 THEN tw
               ELSE IF tw < mj THEN tw ELSE mj
    IN  strip(slice(s, start, end))

(* C23: for every raw text with '# LINKEDIN POSTS', whatever the order of the
   markers, the end of the social section is not before its start, and a
   LinkedIn section longer than the threshold is reported present.  (With
   '# X/TWITTER POSTS' and then '# MIDJOURNEY PROMPTS' before the LinkedIn
   marker the end is set to the MidJourney marker, so this is violated.) *)
C23_SocialEndNotBeforeStart ==
    (SocialDone /\ contains(content_str, LINKEDIN_POSTS))
    => /\ social_end >= social_start
       /\ qwen_social_ok(LinkedinSection(content_str)) => social_extracted

-----------------------------------------------------------------------------
(* C24: for every topic the slug has no trailing whitespace, so the name of
   the output directory has no space directly before '_<timestamp>', also
   when the filtered topic is longer than 50 characters and is cut.  (The
   topic is stripped before it is cut, so a space at the 50th place stays at
   the end of the slug and this is violated.) *)
C24_NoTrailingSpace ==
    variant # "none" => (SlugOf = <<>> \/ SlugOf[Len(SlugOf)] # " ")

-----------------------------------------------------------------------------
\* README.md of researcherqwen.py has been written
QwenReadmeWritten == variant = "qwen" /\ pc \in {"qwen_return", "done"}

\* the README has the 'Extraction Issues' section
HasIssues(readme) == \E j \in 1..Len(readme) : readme[j] = IssuesHeading

(* C25: the README written by researcherqwen.py has the 'Extraction Issues'
   section if and only if at least one of the three sections (blog, social
   media, MidJourney prompts) was not extracted in this call. *)
C25_IssuesIffSectionMissing ==
    QwenReadmeWritten
    => (HasIssues(files[Readme])
        <=> ~(blog_extracted /\ social_extracted /\ midjourney_extracted))

\* the call has returned with the blog and the MidJourney section extracted
\* and the social section not, and the README has the section
C25_Witness ==
    /\ variant = "qwen"
    /\ pc = "done"
    /\ blog_extracted
    /\ ~social_extracted
    /\ midjourney_extracted
    /\ HasIssues(files[Readme])

-----------------------------------------------------------------------------
(* create_content of main.py: kickoff, image generation, saving *)

\* the two prompts of generate_images
main_prompts(t) ==
    << <<"Professional business infographic about ">> \o t \o
       <<", modern clean design, blue and white color scheme, corporate style, high quality">>,
       <<"Social media post graphic about ">> \o t \o
       <<", engaging visual design, vibrant colors, professional illustration, marketing style">> >>

\* what one call of generate_image may meet: the directory cannot be made,
\* the request raises, the API answers 200 or another status, the image
\* cannot be written
ImageOutcomes == {"makedirs", "raises", "200", "429", "write"}

\* hash(prompt) % 10000 in the file name: differs from process to process
ImageHashes == {"17", "4242"}

GeneratedImages == <<"generated_images">>
image_filename(h) == "generated_images/stability_image_" \o h \o ".png"

\* variant of generate_image: an exception of the request leaves the method
generate_image_unhandled(outcome, h) ==
    IF outcome = "200" THEN OkIcon \o " Stability AI image saved: " \o image_filename(h)
    ELSE IF outcome = "429" THEN FailIcon \o " Stability AI error: 429 - rate limit"
    ELSE "ConnectionError"

\* the string generate_image returns (lines 61-71)
generate_image(outcome, h) ==
    IF outcome = "200" THEN OkIcon \o " Stability AI image saved: " \o image_filename(h)
    ELSE IF outcome = "429" THEN FailIcon \o " Stability AI error: 429 - rate limit"
    ELSE FailIcon \o " Error generating Stability AI image: " \o outcome

\* what generate_image leaves on the disk: the directory once os.makedirs
\* passed, the image when it was written
generate_image_disk(d, outcome, h) ==
    IF outcome = "makedirs" THEN d
    ELSE LET dir == makedirs(d, GeneratedImages)
         IN  disk_after(d, GeneratedImages,
                        IF outcome = "200" THEN write(dir, image_filename(h), <<"png">>)
                        ELSE dir)

\* an exception of the crew: a failed LLM call, a rate limit
CrewError == [type |-> "Exception", filename |-> <<>>]

\* lines 248-262: create_content is entered, the task and the crew are made
Create_Call(t) ==
    /\ pc = "idle"
    /\ pc' = "create_kickoff"
    /\ variant' = "main"
    /\ topic' = t
    /\ UNCHANGED <<content_str, images, research_result, content_result, social_result,
                   output_dir, files, blog_start, blog_end, social_start, social_end,
                   blog_extracted, social_extracted, midjourney_extracted,
                   files_created, returned, world>>

\* line 268: crew.kickoff returns the text
Kickoff_Returns(c) ==
    /\ pc = "create_kickoff"
    /\ pc' = "create_images"
    /\ content_str' = c
    /\ UNCHANGED <<variant, topic, images, research_result, content_result,
                   social_result, output_dir, files, blog_start, blog_end, social_start,
                   social_end, blog_extracted, social_extracted, midjourney_extracted,
                   files_created, returned, world>>

\* lines 255-268: the task, the crew or the kickoff raises
Kickoff_Raises ==
    /\ pc = "create_kickoff"
    /\ pc' = "raised"
    /\ exception' = CrewError
    /\ UNCHANGED <<variant, topic, content_str, images, research_result, content_result,
                   social_result, output_dir, files, blog_start, blog_end, social_start,
                   social_end, blog_extracted, social_extracted, midjourney_extracted,
                   files_created, returned, now, disk, result, zip_file, file_name, calls,
                   others>>

\* lines 236-239: one round of the loop of generate_images, the call of
\* generate_image and the append of its result
Generate_Image(outcome, h) ==
    /\ pc = "create_images"
    /\ Len(images) < Len(main_prompts(topic))
    /\ requested' = Append(requested, [prompt |-> main_prompts(topic)[Len(images) + 1],
                                       outcome |-> outcome])
    /\ images' = Append(images, generate_image(outcome, h))
    /\ disk' = generate_image_disk(disk, outcome, h)
    /\ UNCHANGED <<pc, variant, topic, content_str, research_result, content_result,
                   social_result, output_dir, files, blog_start, blog_end, social_start,
                   social_end, blog_extracted, social_extracted, midjourney_extracted,
                   files_created, returned, now, result, exception, zip_file, file_name,
                   calls, organic, start_year, formatted_results, selected_example,
                   text_area, api_keys, button>>

\* variant of Create_Save: the files are saved without waiting for the images
Create_Save_Early ==
    /\ pc = "create_images"
    /\ pc' = "main_blog"
    /\ output_dir' = dir_name(MainRoot, topic, now)
    /\ files' = makedirs(disk, output_dir')
    /\ UNCHANGED <<variant, topic, content_str, images, research_result, content_result,
                   social_result, blog_start, blog_end, social_start, social_end,
                   blog_extracted, social_extracted, midjourney_extracted,
                   files_created, returned, world>>

\* lines 246 and 279, 162-167: generate_images returns its results and
\* save_content_to_files is called with them
Create_Save ==
    /\ pc = "create_images"
    /\ Len(images) = Len(main_prompts(topic))
    /\ pc' = "main_blog"
    /\ output_dir' = dir_name(MainRoot, topic, now)
    /\ files' = makedirs(disk, output_dir')
    /\ UNCHANGED <<variant, topic, content_str, images, research_result, content_result,
                   social_result, blog_start, blog_end, social_start, social_end,
                   blog_extracted, social_extracted, midjourney_extracted,
                   files_created, returned, world>>

\* the texts the crew may return: with and without the blog marker
CreateTexts == {RawText(<<1>>, 10), RawText(<<>>, 10)}

CreateNext ==
    \/ \E t \in Topics : Create_Call(t)
    \/ \E c \in CreateTexts : Kickoff_Returns(c)
    \/ Kickoff_Raises
    \/ \E o \in ImageOutcomes, h \in ImageHashes : Generate_Image(o, h)
    \/ Create_Save
    \/ Main_WriteBlog
    \/ Main_WriteComplete
    \/ Main_WriteImages
    \/ Main_WriteReadme
    \/ Main_Return
    \/ \E how \in WriteFailures : Save_WriteFails(how)
    \/ Create_Except
    \/ Create_Return

CreateSpec == Init /\ [][CreateNext]_vars


\* the kickoff of create_content has raised
KickoffFailed == pc \in {"raised", "propagated"} /\ exception = CrewError

\* save_content_to_files has been called
SaveCalled == output_dir # <<>>

(* C26: create_content of main.py runs its steps in the order kickoff, image
   generation, saving.  An image is requested only after the kickoff has
   returned; save_content_to_files is called only after the kickoff and both
   image generations have returned.  When the kickoff raises, no image is
   requested, no directory and no file is created, and the exception reaches
   the caller: create_content returns nothing. *)
C26_StepsInOrder ==
    /\ requested # <<>> => (pc \notin {"idle", "create_kickoff"} /\ ~KickoffFailed)
    /\ SaveCalled
       => /\ pc \notin {"idle", "create_kickoff", "create_images"}
          /\ ~KickoffFailed
          /\ Len(requested) = Len(main_prompts(topic))
          /\ Len(images) = Len(main_prompts(topic))
    /\ pc \in {"idle", "create_kickoff", "create_images"} => (~SaveCalled /\ files = NoFiles)
    /\ KickoffFailed
       => /\ requested = <<>>
          /\ images = <<>>
          /\ ~SaveCalled
          /\ files = NoFiles
          /\ disk = NoFiles
          /\ returned = None
          /\ result = None
    /\ pc = "propagated" => (exception # None /\ result = None)

\* the kickoff has raised and the exception has left create_content, with
\* nothing requested and nothing on the disk
C26_Witness ==
    /\ pc = "propagated"
    /\ exception = CrewError
    /\ variant = "main"
    /\ requested = <<>>
    /\ disk = NoFiles
    /\ result = None

-----------------------------------------------------------------------------
\* the string r starts with the string icon
StartsWith(r, icon) == Len(r) >= Len(icon) /\ SubSeq(r, 1, Len(icon)) = icon

\* the next step of create_content while the images are generated
ImagesStep ==
    \/ \E o \in ImageOutcomes, h \in ImageHashes : Generate_Image(o, h)
    \/ Create_Save

(* C27: a failed image generation never keeps the content package from being
   saved.  generate_image answers every outcome with a string, which starts
   with the failure icon whenever the image was not saved (a status other
   than 200, an exception of the directory, the request or the file), so the
   loop of generate_images goes on; its results are one per prompt, in the
   order of the prompts; and whatever the results are, save_content_to_files
   is called with them: they are what images_generated.txt and the returned
   dictionary hold. *)
C27_ImageFailureNotFatal ==
    /\ variant = "main"
       => /\ Len(images) = Len(requested)
          /\ Len(images) <= Len(main_prompts(topic))
          /\ \A i \in DOMAIN images :
                /\ requested[i].prompt = main_prompts(topic)[i]
                /\ images[i] = generate_image(requested[i].outcome, "17")
                   \/ images[i] = generate_image(requested[i].outcome, "4242")
                /\ IF requested[i].outcome = "200"
                   THEN StartsWith(images[i], OkIcon)
                   ELSE StartsWith(images[i], FailIcon)
    /\ pc = "create_images" => (exception = None /\ ENABLED ImagesStep)
    /\ (pc = "create_images" /\ Len(images) = Len(main_prompts(topic)))
       => ENABLED Create_Save
    /\ SaveCalled => Len(images) = Len(main_prompts(topic))
    /\ (variant = "main" /\ pc \in {"main_readme", "main_return", "done", "returned"})
       => files[MainImages] = main_images_file(topic, images)
    /\ pc = "returned"
       => result = main_result(content_str, images, output_dir)

\* create_content has returned its dictionary after both image generations
\* failed, the first with a status of the API and the second with an
\* exception, and images_generated.txt holds the two failure strings
C27_Witness ==
    /\ pc = "returned"
    /\ variant = "main"
    /\ Len(requested) = 2
    /\ requested[1].outcome = "429"
    /\ requested[2].outcome = "raises"
    /\ StartsWith(images[1], FailIcon)
    /\ StartsWith(images[2], FailIcon)
    /\ result.images = images
    /\ files[MainImages] = main_images_file(topic, images)

-----------------------------------------------------------------------------
(* create_content of streamlit_app.py *)

\* the object crew.kickoff returns: with the attribute tasks_output, a list
\* of up to three task outputs, or without it
CrewOutputs ==
    {[has_tasks_output |-> FALSE, tasks_output |-> <<>>]}
    \cup {[has_tasks_output |-> TRUE, tasks_output |-> l] :
            l \in UNION {[1..k -> KiloTexts] : k \in 0..3}}

\* a string literal as a text
Chars(s) == [i \in 1..Len(s) |-> SubSeq(s, i, i)]

\* str(e) of what the steps may raise
StepErrors == {"callback failed", "task failed", "rate limit"}
IndexErrorText == "list index out of range"

\* variant of st_except: the exception is not handled
st_except_unhandled(msg) == None

\* lines 448-452: except Exception as e: return {"error": str(e), "success": False}
st_except(msg) == [error |-> msg, success |-> FALSE]

\* lines 435-445: the three results are taken out of the crew's output and
\* returned; a list that is too short raises IndexError inside the try block
st_results(out) ==
    IF ~out.has_tasks_output
    THEN [research |-> Chars("Research completed"),
          content |-> Chars("Content completed"),
          social |-> Chars("Social media completed"), success |-> TRUE]
    ELSE IF Len(out.tasks_output) < 3 THEN st_except(IndexErrorText)
    ELSE [research |-> out.tasks_output[1], content |-> out.tasks_output[2],
          social |-> out.tasks_output[3], success |-> TRUE]

\* lines 404-408: create_content is entered and reports its first step
St_Call(t) ==
    /\ pc = "idle"
    /\ pc' = "st_tasks"
    /\ variant' = "streamlit"
    /\ topic' = t
    /\ UNCHANGED <<content_str, images, research_result, content_result, social_result,
                   output_dir, files, blog_start, blog_end, social_start, social_end,
                   blog_extracted, social_extracted, midjourney_extracted,
                   files_created, returned, world>>

\* lines 410-416: the three tasks are made, the next step is reported
St_Tasks ==
    /\ pc = "st_tasks"
    /\ pc' = "st_crew"
    /\ UNCHANGED <<variant, topic, content_str, images, research_result, content_result,
                   social_result, output_dir, files, blog_start, blog_end, social_start,
                   social_end, blog_extracted, social_extracted, midjourney_extracted,
                   files_created, returned, world>>

\* lines 418-428: the crew is made, the start is reported
St_Crew ==
    /\ pc = "st_crew"
    /\ pc' = "st_kickoff"
    /\ UNCHANGED <<variant, topic, content_str, images, research_result, content_result,
                   social_result, output_dir, files, blog_start, blog_end, social_start,
                   social_end, blog_extracted, social_extracted, midjourney_extracted,
                   files_created, returned, world>>

\* lines 430-446: the kickoff returns, the end is reported, the results are
\* taken out and the dictionary is returned
St_Kickoff(out) ==
    /\ pc = "st_kickoff"
    /\ pc' = "st_returned"
    /\ result' = st_results(out)
    /\ IF result' # None /\ result'.success
       THEN /\ research_result' = result'.research
            /\ content_result' = result'.content
            /\ social_result' = result'.social
       ELSE UNCHANGED <<research_result, content_result, social_result>>
    /\ UNCHANGED <<variant, topic, content_str, images, output_dir, files, blog_start,
                   blog_end, social_start, social_end, blog_extracted, social_extracted,
                   midjourney_extracted, files_created, returned, now, disk, exception,
                   zip_file, file_name, calls, others>>

\* a step of the try block raises (the progress callback, a task, the crew,
\* the kickoff) and the except clause answers
St_Raises(msg) ==
    /\ pc \in {"st_tasks", "st_crew", "st_kickoff"}
    /\ pc' = "st_returned"
    /\ result' = st_except(msg)
    /\ exception' = IF result' = None THEN [type |-> "Exception", filename |-> <<>>]
                    ELSE None
    /\ UNCHANGED <<variant, topic, content_str, images, research_result, content_result,
                   social_result, output_dir, files, blog_start, blog_end, social_start,
                   social_end, blog_extracted, social_extracted, midjourney_extracted,
                   files_created, returned, now, disk, zip_file, file_name, calls,
                   others>>

StTopics == Topics \cup {<<"A", "I", "!">>, <<"M", "L">>}

StNext ==
    \/ \E t \in StTopics : St_Call(t)
    \/ St_Tasks
    \/ St_Crew
    \/ \E out \in CrewOutputs : St_Kickoff(out)
    \/ \E msg \in StepErrors : St_Raises(msg)

StSpec == Init /\ [][StNext]_vars

(* C28: create_content of streamlit_app.py never raises an exception: it
   always returns a dictionary with the key 'success'.  When success is true
   the dictionary has 'research', 'content' and 'social' and no 'error'; when
   a step has raised (the progress callback, a task, the crew, the kickoff,
   the unpacking of a result list that is too short) success is false and the
   dictionary has the message under 'error' and none of the three results. *)
C28_NeverRaises ==
    /\ exception = None
    /\ pc = "st_returned"
       => /\ result # None
          /\ "success" \in DOMAIN result
          /\ IF result.success
             THEN DOMAIN result = {"research", "content", "social", "success"}
             ELSE /\ DOMAIN result = {"error", "success"}
                  /\ result.error \in StepErrors \cup {IndexErrorText}
    /\ variant = "streamlit" => (result # None <=> pc = "st_returned")

\* the kickoff has returned two task outputs only: the unpacking has raised
\* and the dictionary holds the message and success false
C28_Witness ==
    /\ pc = "st_returned"
    /\ result # None
    /\ ~result.success
    /\ result.error = IndexErrorText
    /\ DOMAIN result = {"error", "success"}

-----------------------------------------------------------------------------
(* GoogleScholarTool._run of researcherqwen.py, researcherkilo.py and
   streamlit_app.py: the three copies have the same loop *)

Digits == "0123456789"
Letters == "abcdefghijklmnopqrstuvwxyzABCDEFGHIJKLMNOPQRSTUVWXYZ"

CharAt(s, i) == SubSeq(s, i, i)
CharIn(c, s) == \E k \in 1..Len(s) : CharAt(s, k) = c

\* str.isdigit(): not empty and digits only
isdigit(s) == Len(s) > 0 /\ \A i \in 1..Len(s) : CharIn(CharAt(s, i), Digits)

\* int() of a text of digits
RECURSIVE int(_)
int(s) ==
    IF Len(s) = 0 THEN 0
    ELSE int(SubSeq(s, 1, Len(s) - 1)) * 10
         + (CHOOSE d \in 0..9 : CharAt(Digits, d + 1) = CharAt(s, Len(s)))

\* str() of a natural number
RECURSIVE IntStr(_)
IntStr(n) ==
    IF n < 10 THEN CharAt(Digits, n + 1)
    ELSE IntStr(n \div 10) \o CharAt(Digits, (n % 10) + 1)

\* the values of a JSON field: a number, a string or null
JsonInt(n) == [kind |-> "int", int |-> n, str |-> ""]
JsonStr(s) == [kind |-> "str", int |-> 0, str |-> s]
JsonNull == [kind |-> "null", int |-> 0, str |-> ""]

\* str() of a JSON value
str(v) ==
    IF v.kind = "int" THEN IntStr(v.int)
    ELSE IF v.kind = "str" THEN v.str
    ELSE "None"

\* a character of the class \w
IsWord(c) == CharIn(c, Digits) \/ CharIn(c, Letters) \/ c = "_"

\* re.search(r'\b(20\d{2})\b', snippet): where the pattern matches
year_matches(snippet) ==
    {i \in 1..(Len(snippet) - 3) :
        /\ SubSeq(snippet, i, i + 1) = "20"
        /\ CharIn(CharAt(snippet, i + 2), Digits)
        /\ CharIn(CharAt(snippet, i + 3), Digits)
        /\ i = 1 \/ ~IsWord(CharAt(snippet, i - 1))
        /\ i + 3 = Len(snippet) \/ ~IsWord(CharAt(snippet, i + 4))}

\* year_match.group(1) of the first match, "" without a match
year_match(snippet) ==
    IF year_matches(snippet) = {} THEN ""
    ELSE SubSeq(snippet, MinOf(year_matches(snippet)), MinOf(year_matches(snippet)) + 3)

\* the year of a result: of the publication info if it has one, else of the
\* snippet
year_of(r) ==
    IF r.publicationInfo.has_year THEN str(r.publicationInfo.year)
    ELSE IF r.snippet # "" THEN year_match(r.snippet)
    ELSE ""

PaperIcon == "U+1F4C4"
ScholarIcon == "U+1F52C"

\* the text of one result
result_text(r) ==
    PaperIcon \o " **" \o r.title \o "**\n"
    \o (IF r.link # "" THEN "   Link: " \o r.link \o "\n" ELSE "")
    \o (IF r.publicationInfo.authors # ""
        THEN "   Authors: " \o r.publicationInfo.authors \o "\n" ELSE "")
    \o (IF year_of(r) # "" THEN "   Year: " \o year_of(r) \o "\n" ELSE "")
    \o (IF r.citations > 0 THEN "   Citations: " \o IntStr(r.citations) \o "\n" ELSE "")
    \o (IF r.snippet # "" THEN "   Abstract: " \o r.snippet \o "\n" ELSE "")
    \o "\n"

\* the filter: a year of digits not before start_year, or no year at all
year_kept(year, start) ==
    \/ year # "" /\ isdigit(year) /\ int(year) >= start
    \/ year = ""

\* data["organic"][:6]
top_results(org) == SubSeq(org, 1, IF Len(org) < 6 THEN Len(org) ELSE 6)

\* the loop over the top results
RECURSIVE scholar_results(_, _)
scholar_results(rs, start) ==
    IF rs = <<>> THEN <<>>
    ELSE (IF year_kept(year_of(Head(rs)), start) THEN <<result_text(Head(rs))>> ELSE <<>>)
         \o scholar_results(Tail(rs), start)

\* "\n".join(texts)
RECURSIVE join(_)
join(texts) ==
    IF texts = <<>> THEN ""
    ELSE IF Len(texts) = 1 THEN texts[1]
    ELSE texts[1] \o "\n" \o join(Tail(texts))

\* what _run returns for the results it kept
scholar_answer(query, years_back, kept) ==
    IF kept # <<>>
    THEN ScholarIcon \o " **Google Scholar Results for '" \o query
         \o "' (via Serper.dev):**\n\n" \o join(kept)
    ELSE ScholarIcon \o " No recent Google Scholar results found for '" \o query
         \o "' from the last " \o IntStr(years_back) \o " years."

Scholar_Frame ==
    UNCHANGED <<topic, content_str, images, research_result, content_result,
                social_result, output_dir, files, blog_start, blog_end, social_start,
                social_end, blog_extracted, social_extracted, midjourney_extracted,
                files_created, now, disk, result, exception, zip_file, file_name, calls,
                requested, selected_example, text_area, api_keys, button>>

\* the API key is not set
Scholar_NoKey ==
    /\ pc = "idle"
    /\ pc' = "scholar_returned"
    /\ variant' = "scholar"
    /\ returned' = FailIcon \o " SERPER_API_KEY not found in environment variables"
    /\ organic' = <<>>
    /\ formatted_results' = <<>>
    /\ UNCHANGED start_year
    /\ Scholar_Frame

\* the request fails: it times out, the network fails, or the status is not
\* 200
Scholar_Fails(how, current_year, years_back) ==
    /\ pc = "idle"
    /\ pc' = "scholar_returned"
    /\ variant' = "scholar"
    /\ start_year' = current_year - years_back
    /\ returned' =
         IF how = "Timeout" THEN FailIcon \o " Google Scholar search timed out. Try again."
         ELSE IF how = "RequestException"
              THEN FailIcon \o " Network error during Google Scholar search: refused"
         ELSE FailIcon \o " API request failed with status " \o how \o ": "
    /\ organic' = <<>>
    /\ formatted_results' = <<>>
    /\ Scholar_Frame

\* the request is answered with status 200
Scholar_Answers(query, org, current_year, years_back) ==
    /\ pc = "idle"
    /\ pc' = "scholar_returned"
    /\ variant' = "scholar"
    /\ start_year' = current_year - years_back
    /\ organic' = org
    /\ formatted_results' =
         IF org = <<>> THEN <<>> ELSE scholar_results(top_results(org), start_year')
    /\ returned' =
         IF org = <<>>
         THEN ScholarIcon \o " No Google Scholar results found for '" \o query
              \o "'. Try a different search term."
         ELSE scholar_answer(query, years_back, formatted_results')
    /\ Scholar_Frame

NoInfo == [authors |-> "", has_year |-> FALSE, year |-> JsonNull]
InfoYear(v) == [authors |-> "A Author", has_year |-> TRUE, year |-> v]

\* what a result may say about its year
YearKinds ==
    {[publicationInfo |-> InfoYear(JsonInt(2023)), snippet |-> "Deep nets"],
     [publicationInfo |-> InfoYear(JsonInt(2022)), snippet |-> "in 2025"],
     [publicationInfo |-> InfoYear(JsonStr("2023a")), snippet |-> ""],
     [publicationInfo |-> InfoYear(JsonNull), snippet |-> "Deep nets"],
     [publicationInfo |-> NoInfo, snippet |-> "J Smith - 2024 - Nature"],
     [publicationInfo |-> NoInfo, snippet |-> "from 1998 to 2019."],
     [publicationInfo |-> NoInfo, snippet |-> "2020s trends, ISBN 120245"],
     [publicationInfo |-> NoInfo, snippet |-> ""]}

\* in the long lists
LongKinds ==
    {[publicationInfo |-> InfoYear(JsonInt(2023)), snippet |-> "Deep nets"],
     [publicationInfo |-> NoInfo, snippet |-> ""]}

\* the i-th result of a response
ScholarResult(i, k) ==
    [title |-> "P" \o IntStr(i), link |-> "", snippet |-> k.snippet,
     publicationInfo |-> k.publicationInfo, citations |-> IF i = 1 THEN 12 ELSE 0]

MaxShort == 2
MaxResults == 7

OrganicLists ==
    {[i \in 1..Len(ks) |-> ScholarResult(i, ks[i])] :
        ks \in UNION {[1..n -> YearKinds] : n \in 0..MaxShort}
               \cup [1..MaxResults -> LongKinds]}

CurrentYears == {2025, 2026}
YearsBack == {1, 3}

ScholarNext ==
    \/ Scholar_NoKey
    \/ \E how \in {"Timeout", "RequestException", "500"}, y \in CurrentYears,
          b \in YearsBack : Scholar_Fails(how, y, b)
    \/ \E org \in OrganicLists, y \in CurrentYears, b \in YearsBack :
          Scholar_Answers("llm", org, y, b)

ScholarSpec == Init /\ [][ScholarNext]_vars

\* the result is in the returned list
Included(r) == \E j \in 1..Len(formatted_results) : formatted_results[j] = result_text(r)

\* the result has a known year
KnownYear(r) == isdigit(year_of(r))

(* C29: GoogleScholarTool._run leaves a result out of the returned list only
   when it has a known year earlier than current_year - years_back: every one
   of the top results with a year at or after that bound, and every one
   without clear year information (a year that is not purely digits
   included), is in the list, and the list has at most 6 results. *)
C29_OnlyOldLeftOut ==
    variant = "scholar" =>
        /\ Len(formatted_results) <= 6
        /\ \A i \in 1..Len(top_results(organic)) :
              LET r == organic[i] IN
              Included(r) <=> ~(KnownYear(r) /\ int(year_of(r)) < start_year)

-----------------------------------------------------------------------------
(* The page of streamlit_app.py: main() is run from the top each time the
   user changes a widget, the widgets keep their values between the runs *)

\* two of the example_topics
example_topics ==
    <<Chars("Vector Databases: The Foundation of Modern AI Applications"),
      Chars("What is Model Context Protocol (MCP)?")>>

\* what the user may type into the text area
TypedTopics == {<<>>, PlainTopic, Chars("LLM agents")}

PagePositions ==
    {"page_text_area", "page_selectbox", "page_button", "page_shown", "page_error",
     "page_create"}

PageFrame ==
    UNCHANGED <<content_str, images, research_result, content_result, social_result,
                output_dir, files, blog_start, blog_end, social_start, social_end,
                blog_extracted, social_extracted, midjourney_extracted, files_created,
                returned, now, disk, result, exception, zip_file, file_name, calls,
                requested, organic, start_year, formatted_results>>

\* the page is opened: the first run of the script starts
Page_Open ==
    /\ pc = "idle"
    /\ pc' = "page_text_area"
    /\ variant' = "page"
    /\ UNCHANGED <<topic, selected_example, text_area, api_keys, button>>
    /\ PageFrame

\* topic = st.text_area(...)
Page_TextArea ==
    /\ pc = "page_text_area"
    /\ topic' = text_area
    /\ pc' = "page_selectbox"
    /\ UNCHANGED <<variant, selected_example, text_area, api_keys, button>>
    /\ PageFrame

\* selected_example = st.selectbox(...); with an example selected the topic
\* is set and st.rerun() starts the script again from the top
Page_Selectbox ==
    /\ pc = "page_selectbox"
    /\ IF selected_example # <<>>
       THEN /\ topic' = selected_example
            /\ pc' = "page_text_area"
       ELSE /\ pc' = "page_button"
            /\ UNCHANGED topic
    /\ UNCHANGED <<variant, selected_example, text_area, api_keys, button>>
    /\ PageFrame

\* st.button(..., disabled=not (groq_api_key and serper_api_key and topic)):
\* in the run after a click the topic is checked and the content is created,
\* in the other runs the button is shown
Page_Button ==
    /\ pc = "page_button"
    /\ pc' = IF ~button THEN "page_shown"
             ELSE IF ~api_keys THEN "page_error"
             ELSE IF topic = <<>> \/ Len(strip(topic)) < 5 THEN "page_error"
             ELSE "page_create"
    /\ UNCHANGED <<variant, topic, selected_example, text_area, api_keys, button>>
    /\ PageFrame

\* the content is created and shown, the run ends
Page_Created ==
    /\ pc = "page_create"
    /\ pc' = "page_shown"
    /\ UNCHANGED <<variant, topic, selected_example, text_area, api_keys, button>>
    /\ PageFrame

\* the user types a topic: the script runs again
User_Types(t) ==
    /\ pc \in PagePositions
    /\ t # text_area
    /\ text_area' = t
    /\ button' = FALSE
    /\ pc' = "page_text_area"
    /\ UNCHANGED <<variant, topic, selected_example, api_keys>>
    /\ PageFrame

\* the user chooses an entry of the select box, the empty one included
User_Selects(e) ==
    /\ pc \in PagePositions
    /\ e # selected_example
    /\ selected_example' = e
    /\ button' = FALSE
    /\ pc' = "page_text_area"
    /\ UNCHANGED <<variant, topic, text_area, api_keys>>
    /\ PageFrame

\* the user enters the API keys in the sidebar
User_EntersKeys ==
    /\ pc \in PagePositions
    /\ ~api_keys
    /\ api_keys' = TRUE
    /\ button' = FALSE
    /\ pc' = "page_text_area"
    /\ UNCHANGED <<variant, topic, selected_example, text_area>>
    /\ PageFrame

\* the user clicks the button, which is on the page and enabled
User_Clicks ==
    /\ pc \in {"page_shown", "page_error"}
    /\ api_keys /\ topic # <<>>
    /\ button' = TRUE
    /\ pc' = "page_text_area"
    /\ UNCHANGED <<variant, topic, selected_example, text_area, api_keys>>
    /\ PageFrame

\* the steps of the script
PageRun ==
    \/ Page_Open
    \/ Page_TextArea
    \/ Page_Selectbox
    \/ Page_Button
    \/ Page_Created

\* what the user does
UserActs ==
    \/ \E t \in TypedTopics : User_Types(t)
    \/ \E e \in {<<>>, example_topics[1], example_topics[2]} : User_Selects(e)
    \/ User_EntersKeys
    \/ User_Clicks

PageNext == PageRun \/ UserActs

\* a run that has started goes on until it ends or is started again
PageSpec == Init /\ [][PageNext]_vars /\ WF_vars(PageRun)

\* the button is reached only with no example selected
ButtonWithoutExample == pc \in {"page_button", "page_shown"} => selected_example = <<>>

(* C30: after the user has selected an example topic in the select box, the
   run of the script eventually reaches the 'Create Content' button with the
   topic equal to the selected example; the run does not restart forever
   while the example stays selected.  (A user who never stops changing the
   widgets, or who takes the example back, is not held against the page.) *)
C30_ExampleReachesButton ==
    <>[][PageRun]_vars
        => ((selected_example # <<>>)
               ~> (selected_example = <<>>
                   \/ (pc = "page_button" /\ topic = selected_example)))

====
